---- MODULE Spec2Model ----
(***************************************************************************)
(* Job dispatch and matching engine of the kaamwale backend (src/server.js  *)
(* and the matching service appended to src/cleanup.js).                    *)
(*                                                                          *)
(* The process is a single-threaded event loop.  Every handler runs         *)
(* synchronously from one await to the next; every await is a call to the   *)
(* store (MongoDB through Mongoose).  A store call touches only the store,  *)
(* the synchronous code between two awaits touches only the in-process maps *)
(* (connectedWorkers, pendingJobTimeouts, trackingJobs, the socket table),  *)
(* so each action below is one synchronous continuation of a handler        *)
(* followed by the store call it then awaits; the result of the call is     *)
(* kept in the handler's record and consumed by its next action.            *)
(*                                                                          *)
(* Mongoose document.save() writes the paths modified on the local          *)
(* document, selected by _id only (an array push is sent as $push), so a    *)
(* save made from a stale read overwrites exactly the paths it modified.    *)
(***************************************************************************)
EXTENDS Integers, Sequences, FiniteSets, TLC

\* ------------------------------------------------------------------ bounds
\* In-flight HTTP requests, in-flight dispatch rounds / timer callbacks,
\* timer handles, and client-initiated operations per behaviour.
MaxReq == 2
MaxRounds == 2
MaxTimers == 3
MaxOps == 4

\* ------------------------------------------------------------ identities
Workers == {"w1", "w2"}
\* req.user.name and req.user.phone of the JWT (server.js:1207): two
\* different strings per user.
NameOf == [w \in Workers |-> IF w = "w1" THEN "name1" ELSE "name2"]
PhoneOf == [w \in Workers |-> IF w = "w1" THEN "phone1" ELSE "phone2"]
UserOfPhone(p) == CHOOSE w \in Workers : PhoneOf[w] = p

\* Job ids in the order in which the store hands them out.
JobIds == <<"j1", "j2">>
Jobs == {JobIds[n] : n \in 1..Len(JobIds)}
Socks == {"s1", "s2", "s3"}
\* The authenticated user of each socket (socket.user, server.js:333).
SockUser == [s \in Socks |-> IF s = "s2" THEN "w2" ELSE "w1"]

Null == "null"
NullRec == [null |-> TRUE]

\* Coordinates are in units of 0.01 km along one meridian (lon is the same
\* non-zero value everywhere), so the great-circle distance is the
\* difference of the lat values.
JobLats == {1000}
WorkerLats == {1100, 1300}
Lons == {7385}
WorkerTypes == {"mason"}

VARIABLES
  jobs,                \* Job collection: job id -> document
  userAvail,           \* User.isAvailable per user
  workerRec,           \* Worker collection: user -> document or NullRec
  wallet,              \* Wallet collection: the balance of the contractor
  connectedWorkers,    \* Map socketId -> entry, in insertion order
  socks,               \* io.sockets.sockets: socket id -> connection state
  timers,              \* scheduled setTimeout callbacks: handle -> record
  pendingJobTimeouts,  \* Map jobId -> timer handle (0: no entry)
  trackingJobs,        \* Map jobId -> expiry: Null (no entry), "running"
                       \* (Date.now() < expiry) or "expired"
  trackUntil,          \* the expiry stored in trackingJobs, in ms (0: no entry)
  now,                 \* Date.now(), in ms since the server started
  reqs,                \* in-flight HTTP / socket handlers
  rounds,              \* in-flight offerJobToNextWorker calls and timer callbacks
  holders,             \* history: per job, workers whose accept succeeded and
                       \* whose job has stayed accepted since
  offeredAtCancel,     \* history: per job, the users that had an offer of the
                       \* job outstanding when a cancel was saved
  ev,                  \* the event emitted or response sent by the last step
  ops                  \* number of client operations started so far

store == <<jobs, userAvail, workerRec, wallet>>
memory == <<connectedWorkers, socks, timers, pendingJobTimeouts, trackingJobs>>
clock == <<trackUntil, now>>
hist == <<holders, offeredAtCancel>>
vars == <<jobs, userAvail, workerRec, wallet, connectedWorkers, socks, timers,
          pendingJobTimeouts, trackingJobs, trackUntil, now, reqs, rounds, holders,
          offeredAtCancel, ev, ops>>

\* server.js:1464-1465: the length of the tracking window, in ms.
TRACK_MINUTES == 10
TrackingWindow == TRACK_MINUTES * 40 * 1000

\* ------------------------------------------------------------------ store
\* jobSchema (src/unnamed/part_004); status "none" stands for "no such
\* document".
NoJob(j) ==
  [id |-> j, status |-> "none", acceptedBy |-> Null, acceptedWorker |-> NullRec,
   acceptedAt |-> Null, declinedBy |-> <<>>, attendanceStatus |-> Null,
   paymentStatus |-> Null, lat |-> 0, lon |-> 0, workerType |-> Null]

\* new Job({ ..., status: "pending", declinedBy: [] }) (server.js:1291-1304)
NewJob(j, lat, lon, wt) ==
  [NoJob(j) EXCEPT !.status = "pending", !.lat = lat, !.lon = lon, !.workerType = wt]

Includes(seq, x) == \E i \in 1..Len(seq) : seq[i] = x

\* Job.findOne({ acceptedBy: name, paymentStatus: { $ne: "Paid" } })
HasUnpaidJob(name) ==
  \E k \in Jobs : /\ jobs[k].status # "none"
                  /\ jobs[k].acceptedBy = name
                  /\ jobs[k].paymentStatus # "Paid"

NoEv == [type |-> "none"]
Idle == [kind |-> "idle"]
NoRound == [pc |-> "none"]
NoTimer == [kind |-> "none"]

FreeReq(i) == reqs[i] = Idle
FreeRound(i) == rounds[i] = NoRound
\* A handler takes the lowest free slot.
LowestFreeReq(i) == FreeReq(i) /\ \A k \in 1..(i-1) : ~FreeReq(k)
LowestFreeRound(i) == FreeRound(i) /\ \A k \in 1..(i-1) : ~FreeRound(k)

\* ----------------------------------------------------------- matching
Abs(x) == IF x < 0 THEN -x ELSE x

\* getDistanceFromLatLonInKm (utils/distance, not part of the sources), in
\* units of 0.01 km.
DistKm(lat1, lon1, lat2, lon2) == Abs(lat1 - lat2)

\* Math.round(distKm * 10) / 10, in units of 0.01 km
Round1(d) == ((d + 5) \div 10) * 10

RADIUS_KM == 500

\* Insertion of x into a sequence sorted by distance, after the elements
\* that are not farther (Array.prototype.sort is stable).
RECURSIVE SortByDistance(_)
SortByDistance(seq) ==
  IF Len(seq) <= 1 THEN seq
  ELSE LET rest == SortByDistance(Tail(seq))
           x == Head(seq)
           before == SelectSeq(rest, LAMBDA y : y.distance < x.distance)
           after == SelectSeq(rest, LAMBDA y : y.distance >= x.distance)
       IN before \o <<x>> \o after

Nearby(jobLocation, worker) ==
  [socketId |-> worker.socketId, name |-> worker.name, phone |-> worker.phone,
   workerType |-> worker.workerType, lat |-> worker.lat, lon |-> worker.lon,
   distance |-> Round1(DistKm(jobLocation.lat, jobLocation.lon, worker.lat, worker.lon))]

\* exports.findNearbyWorkers
findNearbyWorkers(jobLocation, cw) ==
  LET usable(worker) ==
        /\ worker.lat # 0 /\ worker.lon # 0 /\ worker.name # Null
        /\ worker.isAvailable # "false"
        /\ DistKm(jobLocation.lat, jobLocation.lon, worker.lat, worker.lon) <= RADIUS_KM
      kept == SelectSeq(cw, usable)
  IN SortByDistance([i \in 1..Len(kept) |-> Nearby(jobLocation, kept[i])])

\* ---------------------------------------------------------------- timers
\* A handle is free when no scheduled callback has it and the map does not
\* refer to it (a fired timer's handle stays in the map until it is
\* overwritten or deleted).
FreeHandles(tm, pj) ==
  {h \in 1..MaxTimers : tm[h] = NoTimer /\ \A j \in Jobs : pj[j] # h}

\* if (pendingJobTimeouts.has(id)) { clearTimeout(get(id)); delete(id) }
ClearTimeout(tm, pj, j) ==
  [timers |-> IF pj[j] # 0 THEN [tm EXCEPT ![pj[j]] = NoTimer] ELSE tm,
   pending |-> [pj EXCEPT ![j] = 0]]

\* const id = setTimeout(...); pendingJobTimeouts.set(jobId, id): the
\* previous handle of the job, if any, is overwritten, not cleared.
SetTimeout(tm, pj, j, kind, to) ==
  LET h == CHOOSE x \in FreeHandles(tm, pj) : \A y \in FreeHandles(tm, pj) : x <= y
  IN [timers |-> [tm EXCEPT ![h] =
                    [kind |-> kind, job |-> j, to |-> to, answered |-> FALSE]],
      pending |-> [pj EXCEPT ![j] = h]]

\* ---------------------------------------------------------------- rounds
\* First index >= from of a nearby worker whose name is not in declinedBy
\* (server.js:233-236); 0 when there is none.
NextCandidate(cands, declined, from) ==
  LET ok == {k \in from..Len(cands) : ~Includes(declined, cands[k].name)}
  IN IF ok = {} THEN 0 ELSE CHOOSE k \in ok : \A m \in ok : k <= m

\* User.findOne({ phone }) followed by the test of server.js:240
UserAvailable(phone) ==
  /\ \E w \in Workers : PhoneOf[w] = phone
  /\ userAvail[UserOfPhone(phone)]

\* History: the user behind a socket holds another job that is accepted by
\* that user's name and not paid.
HoldsOtherUnpaid(s, j) ==
  \E k \in Jobs \ {j} : /\ jobs[k].status # "none"
                        /\ jobs[k].acceptedBy = NameOf[SockUser[s]]
                        /\ jobs[k].paymentStatus # "Paid"

\* The loop of server.js:233-259 from index `from`, up to its next await
\* (User.findOne of the next worker that has not declined) or, when the
\* list is exhausted, the retry branch of server.js:261-281.  start is
\* history: the declinedBy the store held when the round was started;
\* the round's field after is history too: the socket whose unanswered
\* offer expired and started the round, Null for every other round.
RoundContinue(i, doc, cands, from, tm, pj, start) ==
  LET k == NextCandidate(cands, doc.declinedBy, from)
  IN IF k = 0
     THEN /\ FreeHandles(tm, pj) # {}
          /\ timers' = SetTimeout(tm, pj, doc.id, "retry", Null).timers
          /\ pendingJobTimeouts' = SetTimeout(tm, pj, doc.id, "retry", Null).pending
          /\ rounds' = [rounds EXCEPT ![i] = NoRound]
     ELSE /\ timers' = tm
          /\ pendingJobTimeouts' = pj
          /\ rounds' = [rounds EXCEPT ![i] =
               [pc |-> "gotUser", doc |-> doc, cands |-> cands, idx |-> k,
                avail |-> UserAvailable(cands[k].phone), unpaid |-> FALSE,
                held |-> FALSE, start |-> start,
                after |-> IF rounds[i].pc = "none" THEN Null ELSE rounds[i].after]]

\* offerJobToNextWorker(job), server.js:213-259, up to its first await.
offerJobToNextWorker(i, doc) ==
  LET c == ClearTimeout(timers, pendingJobTimeouts, doc.id)
      cands == findNearbyWorkers(
                 [lat |-> doc.lat, lon |-> doc.lon, workerType |-> doc.workerType],
                 connectedWorkers)
  IN RoundContinue(i, doc, cands, 1, c.timers, c.pending, jobs[doc.id].declinedBy)

Candidate(i) == rounds[i].cands[rounds[i].idx]

\* server.js:240-243: the user is offline in the User model; next worker.
RoundUserOffline(i) ==
  /\ rounds[i].pc = "gotUser"
  /\ ~rounds[i].avail
  /\ RoundContinue(i, rounds[i].doc, rounds[i].cands, rounds[i].idx + 1,
                   timers, pendingJobTimeouts, rounds[i].start)
  /\ ev' = NoEv
  /\ UNCHANGED <<store, connectedWorkers, socks, trackingJobs, clock, reqs, hist, ops>>

RoundCheckUnpaidAnyUser(i) ==
  /\ rounds[i].pc = "gotUser"
  /\ rounds' = [rounds EXCEPT ![i] =
       [@ EXCEPT !.pc = "gotUnpaid",
                 !.unpaid = HasUnpaidJob(Candidate(i).name),
                 !.held = HoldsOtherUnpaid(Candidate(i).socketId, rounds[i].doc.id)]]
  /\ ev' = NoEv
  /\ UNCHANGED <<store, memory, clock, reqs, hist, ops>>

\* server.js:245-249: the user is online; Job.findOne for an unpaid job.
RoundCheckUnpaid(i) ==
  /\ rounds[i].pc = "gotUser"
  /\ rounds[i].avail
  /\ rounds' = [rounds EXCEPT ![i] =
       [@ EXCEPT !.pc = "gotUnpaid",
                 !.unpaid = HasUnpaidJob(Candidate(i).name),
                 !.held = HoldsOtherUnpaid(Candidate(i).socketId, rounds[i].doc.id)]]
  /\ ev' = NoEv
  /\ UNCHANGED <<store, memory, clock, reqs, hist, ops>>

\* server.js:251-254: the worker has an unpaid job; next worker.
RoundSkipUnpaid(i) ==
  /\ rounds[i].pc = "gotUnpaid"
  /\ rounds[i].unpaid
  /\ RoundContinue(i, rounds[i].doc, rounds[i].cands, rounds[i].idx + 1,
                   timers, pendingJobTimeouts, rounds[i].start)
  /\ ev' = NoEv
  /\ UNCHANGED <<store, connectedWorkers, socks, trackingJobs, clock, reqs, hist, ops>>

\* The newJob event of server.js:288-292.
NewJobEvent(i) ==
  [type |-> "newJob", job |-> rounds[i].doc.id, sock |-> Candidate(i).socketId,
   name |-> Candidate(i).name, held |-> rounds[i].held, start |-> rounds[i].start,
   after |-> rounds[i].after]

\* server.js:283-309: the worker's socket is connected; push the offer and
\* arm the 60 s timer.
RoundPush(i) ==
  /\ rounds[i].pc = "gotUnpaid"
  /\ ~rounds[i].unpaid
  /\ socks[Candidate(i).socketId] = "open"
  /\ FreeHandles(timers, pendingJobTimeouts) # {}
  /\ ev' = NewJobEvent(i)
  /\ timers' = SetTimeout(timers, pendingJobTimeouts, rounds[i].doc.id, "offer",
                          Candidate(i).socketId).timers
  /\ pendingJobTimeouts' =
       SetTimeout(timers, pendingJobTimeouts, rounds[i].doc.id, "offer",
                          Candidate(i).socketId).pending
  /\ rounds' = [rounds EXCEPT ![i] = NoRound]
  /\ UNCHANGED <<store, connectedWorkers, socks, trackingJobs, clock, reqs, hist, ops>>

\* server.js:310-314: no socket for the selected worker; call
\* offerJobToNextWorker(job) again.
RoundWorkerGone(i) ==
  /\ rounds[i].pc = "gotUnpaid"
  /\ ~rounds[i].unpaid
  /\ socks[Candidate(i).socketId] # "open"
  /\ offerJobToNextWorker(i, rounds[i].doc)
  /\ ev' = NoEv
  /\ UNCHANGED <<store, connectedWorkers, socks, trackingJobs, clock, reqs, hist, ops>>

\* A scheduled callback runs (server.js:267-269, 296-298): Job.findById.
TimerFire(h, i) ==
  /\ timers[h] # NoTimer
  /\ LowestFreeRound(i)
  /\ timers' = [timers EXCEPT ![h] = NoTimer]
  /\ rounds' = [rounds EXCEPT ![i] =
       [pc |-> "timerRead", doc |-> jobs[timers[h].job],
        after |-> IF timers[h].kind = "offer" /\ ~timers[h].answered
                  THEN timers[h].to ELSE Null]]
  /\ ev' = NoEv
  /\ UNCHANGED <<store, connectedWorkers, socks, pendingJobTimeouts, trackingJobs, clock,
                 reqs, hist, ops>>

TimerRetryAnyStatus(i) ==
  /\ rounds[i].pc = "timerRead"
  /\ offerJobToNextWorker(i, rounds[i].doc)
  /\ ev' = NoEv
  /\ UNCHANGED <<store, connectedWorkers, socks, trackingJobs, clock, reqs, hist, ops>>

\* server.js:270-273, 299-302: the job is still pending; a fresh round.
TimerRetry(i) ==
  /\ rounds[i].pc = "timerRead"
  /\ rounds[i].doc.status = "pending"
  /\ offerJobToNextWorker(i, rounds[i].doc)
  /\ ev' = NoEv
  /\ UNCHANGED <<store, connectedWorkers, socks, trackingJobs, clock, reqs, hist, ops>>

\* The job is not pending (or not found): the callback ends.
TimerStop(i) ==
  /\ rounds[i].pc = "timerRead"
  /\ rounds[i].doc.status # "pending"
  /\ rounds' = [rounds EXCEPT ![i] = NoRound]
  /\ ev' = NoEv
  /\ UNCHANGED <<store, memory, clock, reqs, hist, ops>>

\* server.js:315-317: User.findOne or Job.findOne of the round throws; the
\* catch around the body of offerJobToNextWorker logs and the call returns.
RoundLookupFails(i) ==
  /\ rounds[i].pc \in {"gotUser", "gotUnpaid"}
  /\ rounds' = [rounds EXCEPT ![i] = NoRound]
  /\ ev' = NoEv
  /\ UNCHANGED <<store, memory, clock, reqs, hist, ops>>

\* server.js:274-276, 303-305: Job.findById of a timer callback throws; the
\* catch of the callback logs and the callback ends.
TimerReadFails(i) ==
  /\ rounds[i].pc = "timerRead"
  /\ rounds' = [rounds EXCEPT ![i] = NoRound]
  /\ ev' = NoEv
  /\ UNCHANGED <<store, memory, clock, reqs, hist, ops>>

\* ------------------------------------------------------------- postJob
UnusedJobs == {j \in Jobs : jobs[j].status = "none"}

\* The test `!title || !lat || !lon` of server.js:1268 and 525: an absent
\* title is Null, an absent (or zero) coordinate is 0.
MissingFields(title, lat, lon) == title = Null \/ lat = 0 \/ lon = 0

PostResponse(result) == [type |-> "postResp", result |-> result]

\* A rejection that takes the posting fee before it answers.
PostJobRejectAfterFee(title, lat, lon) ==
  /\ ops < MaxOps
  /\ MissingFields(title, lat, lon)
  /\ wallet >= 25
  /\ wallet' = wallet - 25
  /\ ev' = PostResponse("missing")
  /\ ops' = ops + 1
  /\ UNCHANGED <<jobs, userAvail, workerRec, memory, clock, reqs, rounds, hist>>

\* POST /jobs/post, server.js:1263-1269: a required field is missing; 400.
PostJobReject(title, lat, lon) ==
  /\ ops < MaxOps
  /\ MissingFields(title, lat, lon)
  /\ ev' = PostResponse("missing")
  /\ ops' = ops + 1
  /\ UNCHANGED <<store, memory, clock, reqs, rounds, hist>>

\* socket.on("postJobSocket"), server.js:511-528: a required field is
\* missing; an error event is sent to the socket.
PostJobSocketReject(s, title, lat, lon) ==
  /\ ops < MaxOps
  /\ socks[s] = "open"
  /\ MissingFields(title, lat, lon)
  /\ ev' = [type |-> "postError", sock |-> s, result |-> "missing"]
  /\ ops' = ops + 1
  /\ UNCHANGED <<store, memory, clock, reqs, rounds, hist>>

\* server.js:1271-1281: the wallet holds less than the required 200.
PostJobInsufficient ==
  /\ ops < MaxOps
  /\ wallet < 200
  /\ ev' = PostResponse("insufficient")
  /\ ops' = ops + 1
  /\ UNCHANGED <<store, memory, clock, reqs, rounds, hist>>

\* server.js:531-539: the wallet holds less than the fee of 25.
PostJobSocketInsufficient(s) ==
  /\ ops < MaxOps
  /\ socks[s] = "open"
  /\ wallet < 25
  /\ ev' = [type |-> "postError", sock |-> s, result |-> "insufficient"]
  /\ ops' = ops + 1
  /\ UNCHANGED <<store, memory, clock, reqs, rounds, hist>>

\* The store hands out the job ids in order.
NextJobId(j) ==
  \E n \in 1..Len(JobIds) :
     /\ j = JobIds[n] /\ j \in UnusedJobs
     /\ \A m \in 1..(n-1) : JobIds[m] \notin UnusedJobs

\* server.js:530-558: the fee is deducted and the job document is saved.
PostJobSocket(i, s, j, lat, lon, wt) ==
  /\ ops < MaxOps
  /\ LowestFreeReq(i)
  /\ socks[s] = "open"
  /\ wallet >= 25
  /\ NextJobId(j)
  /\ wallet' = wallet - 25
  /\ jobs' = [jobs EXCEPT ![j] = NewJob(j, lat, lon, wt)]
  /\ reqs' = [reqs EXCEPT ![i] = [kind |-> "post", pc |-> "saved", doc |-> NewJob(j, lat, lon, wt)]]
  /\ ev' = NoEv
  /\ ops' = ops + 1
  /\ UNCHANGED <<userAvail, workerRec, memory, clock, rounds, hist>>

\* POST /jobs/post, server.js:1263-1305: the fee is deducted and the job
\* document is saved.
PostJob(i, j, lat, lon, wt) ==
  /\ ops < MaxOps
  /\ LowestFreeReq(i)
  /\ wallet >= 200
  /\ wallet' = wallet - 25
  /\ \E n \in 1..Len(JobIds) :
        /\ j = JobIds[n] /\ j \in UnusedJobs
        /\ \A m \in 1..(n-1) : JobIds[m] \notin UnusedJobs
  /\ jobs' = [jobs EXCEPT ![j] = NewJob(j, lat, lon, wt)]
  /\ reqs' = [reqs EXCEPT ![i] = [kind |-> "post", pc |-> "saved", doc |-> NewJob(j, lat, lon, wt)]]
  /\ ev' = NoEv
  /\ ops' = ops + 1
  /\ UNCHANGED <<userAvail, workerRec, memory, clock, rounds, hist>>

\* server.js:1315-1327: the first dispatch round of the new job.
PostJobOffer(i, k) ==
  /\ reqs[i].kind = "post"
  /\ LowestFreeRound(k)
  /\ offerJobToNextWorker(k, reqs[i].doc)
  /\ reqs' = [reqs EXCEPT ![i] = Idle]
  /\ ev' = NoEv
  /\ UNCHANGED <<store, connectedWorkers, socks, trackingJobs, clock, hist, ops>>

\* -------------------------------------------------------------- accept
\* History: an accept or decline request of user w for job j answers the
\* offers of j that are outstanding to w (the field answered of their
\* timers).
Answer(tm, w, j) ==
  [h \in 1..MaxTimers |->
     IF tm[h].kind = "offer" /\ tm[h].job = j /\ SockUser[tm[h].to] = w
     THEN [tm[h] EXCEPT !.answered = TRUE] ELSE tm[h]]

\* server.js:1357-1375: the acceptedWorker snapshot from the Worker document.
Snapshot(w) ==
  IF workerRec[w] = NullRec THEN NullRec
  ELSE [id |-> w, name |-> NameOf[w], phone |-> PhoneOf[w],
        skills |-> workerRec[w].skills, lat |-> workerRec[w].lat, lon |-> workerRec[w].lon]

AcceptResponse(w, j, result, race, st0) ==
  [type |-> "acceptResp", w |-> w, j |-> j, result |-> result, race |-> race, st0 |-> st0]

\* POST /jobs/accept/:id, server.js:1335-1355: Job.findOne finds an unpaid
\* job of this worker; the request is rejected.
AcceptRejectUnpaid(w, j) ==
  /\ ops < MaxOps
  /\ HasUnpaidJob(NameOf[w])
  /\ ev' = AcceptResponse(w, j, "unpaid", FALSE, jobs[j].status)
  /\ timers' = Answer(timers, w, j)
  /\ ops' = ops + 1
  /\ UNCHANGED <<store, connectedWorkers, socks, pendingJobTimeouts, trackingJobs, clock,
                 reqs, rounds, hist>>

\* server.js:1335-1387: no unpaid job, and the id names no job (ids are
\* generated by the store when a job is saved); the conditional update
\* matches nothing.
AcceptNotFound(w, j) ==
  /\ ops < MaxOps
  /\ jobs[j].status = "none"
  /\ ~HasUnpaidJob(NameOf[w])
  /\ ev' = AcceptResponse(w, j, "conflict", FALSE, "none")
  /\ ops' = ops + 1
  /\ UNCHANGED <<store, memory, clock, reqs, rounds, hist>>

\* server.js:1335-1375: no unpaid job; the Worker document is read for the
\* snapshot.  race and st0 are history: the job was pending when the call
\* started and has been written by accept calls only since; the status at
\* the start of the call.
AcceptStart(i, w, j) ==
  /\ ops < MaxOps
  /\ LowestFreeReq(i)
  /\ jobs[j].status # "none"
  /\ ~HasUnpaidJob(NameOf[w])
  /\ reqs' = [reqs EXCEPT ![i] =
       [kind |-> "accept", pc |-> "gotWorker", w |-> w, j |-> j, snap |-> Snapshot(w),
        race |-> (jobs[j].status = "pending"), st0 |-> jobs[j].status]]
  /\ timers' = Answer(timers, w, j)
  /\ ev' = NoEv
  /\ ops' = ops + 1
  /\ UNCHANGED <<store, connectedWorkers, socks, pendingJobTimeouts, trackingJobs, clock,
                 rounds, hist>>

\* Variants of the filter that also match a job another worker holds.
AcceptFilterOpen(job) == job.status \in {"pending", "accepted"}
AcceptFilterNotNone(job) == job.status # "none"

\* The filter { _id: jobId, status: "pending" } of server.js:1379.
AcceptFilter(job) == job.status = "pending"

\* A write of a job's status by a handler other than accept ends the race of
\* the accept calls in flight on that job (history).
EndRaces(rq, j) ==
  [i \in 1..MaxReq |->
     IF rq[i].kind = "accept" /\ rq[i].j = j THEN [rq[i] EXCEPT !.race = FALSE] ELSE rq[i]]

\* server.js:1377-1382: Job.findOneAndUpdate finds the job pending and
\* sets status, acceptedBy, acceptedWorker and acceptedAt.
AcceptUpdate(i) ==
  /\ reqs[i].kind = "accept" /\ reqs[i].pc = "gotWorker"
  /\ AcceptFilter(jobs[reqs[i].j])
  /\ jobs' = [jobs EXCEPT ![reqs[i].j] =
       [@ EXCEPT !.status = "accepted", !.acceptedBy = NameOf[reqs[i].w],
                 !.acceptedWorker = reqs[i].snap, !.acceptedAt = "set"]]
  /\ holders' = [holders EXCEPT ![reqs[i].j] = @ \cup {reqs[i].w}]
  /\ UNCHANGED offeredAtCancel
  /\ reqs' = [reqs EXCEPT ![i] = [@ EXCEPT !.pc = "gotUpdate"]]
  /\ ev' = NoEv
  /\ UNCHANGED <<wallet, userAvail, workerRec, memory, clock, rounds, ops>>

\* A conflict that clears the job's timer as a successful accept does.
AcceptConflictClears(i) ==
  /\ reqs[i].kind = "accept" /\ reqs[i].pc = "gotWorker"
  /\ ~(jobs[reqs[i].j].status = "pending")
  /\ timers' = ClearTimeout(timers, pendingJobTimeouts, reqs[i].j).timers
  /\ pendingJobTimeouts' = ClearTimeout(timers, pendingJobTimeouts, reqs[i].j).pending
  /\ reqs' = [reqs EXCEPT ![i] = Idle]
  /\ ev' = AcceptResponse(reqs[i].w, reqs[i].j, "conflict", reqs[i].race, reqs[i].st0)
  /\ UNCHANGED <<store, connectedWorkers, socks, trackingJobs, clock, rounds, hist, ops>>

\* server.js:1377-1387: Job.findOneAndUpdate matches no document; "Job
\* already accepted or not found".
AcceptConflict(i) ==
  /\ reqs[i].kind = "accept" /\ reqs[i].pc = "gotWorker"
  /\ ~AcceptFilter(jobs[reqs[i].j])
  /\ reqs' = [reqs EXCEPT ![i] = Idle]
  /\ ev' = AcceptResponse(reqs[i].w, reqs[i].j, "conflict", reqs[i].race, reqs[i].st0)
  /\ UNCHANGED <<store, memory, clock, rounds, hist, ops>>

\* server.js:1389-1470: notifications, jobUpdated, the job's timer is
\* cleared, the tracking window is opened, success is returned.
\* The success response of server.js:1470; notified is history: no
\* NotificationHistory.create of this accept has failed.
AcceptSuccess(i) ==
  [type |-> "acceptResp", w |-> reqs[i].w, j |-> reqs[i].j, result |-> "success",
   race |-> reqs[i].race, st0 |-> reqs[i].st0, notified |-> reqs[i].pc = "gotUpdate"]

AcceptFinishStopsOnFailure(i) ==
  /\ reqs[i].kind = "accept" /\ reqs[i].pc \in {"gotUpdate", "notifyFailed"}
  /\ IF reqs[i].pc = "notifyFailed"
     THEN /\ ev' = AcceptResponse(reqs[i].w, reqs[i].j, "error", reqs[i].race,
                                  reqs[i].st0)
          /\ UNCHANGED <<timers, pendingJobTimeouts, trackingJobs, clock>>
     ELSE /\ timers' = ClearTimeout(timers, pendingJobTimeouts, reqs[i].j).timers
          /\ pendingJobTimeouts' =
               ClearTimeout(timers, pendingJobTimeouts, reqs[i].j).pending
          /\ trackingJobs' = [trackingJobs EXCEPT ![reqs[i].j] = "running"]
          /\ trackUntil' = [trackUntil EXCEPT ![reqs[i].j] = now + TrackingWindow]
          /\ now' = now
          /\ ev' = AcceptSuccess(i)
  /\ reqs' = [reqs EXCEPT ![i] = Idle]
  /\ UNCHANGED <<store, connectedWorkers, socks, rounds, hist, ops>>

AcceptFinish(i) ==
  /\ reqs[i].kind = "accept" /\ reqs[i].pc \in {"gotUpdate", "notifyFailed"}
  /\ timers' = ClearTimeout(timers, pendingJobTimeouts, reqs[i].j).timers
  /\ pendingJobTimeouts' = ClearTimeout(timers, pendingJobTimeouts, reqs[i].j).pending
  /\ trackingJobs' = [trackingJobs EXCEPT ![reqs[i].j] = "running"]
  /\ trackUntil' = [trackUntil EXCEPT ![reqs[i].j] = now + TrackingWindow]
  /\ now' = now
  /\ reqs' = [reqs EXCEPT ![i] = Idle]
  /\ ev' = AcceptSuccess(i)
  /\ UNCHANGED <<store, connectedWorkers, socks, rounds, hist, ops>>

\* server.js:1391-1441: NotificationHistory.create for the contractor or
\* for the worker throws; the catch around it logs and the handler goes on.
AcceptNotifyFails(i) ==
  /\ reqs[i].kind = "accept" /\ reqs[i].pc = "gotUpdate"
  /\ reqs' = [reqs EXCEPT ![i] = [@ EXCEPT !.pc = "notifyFailed"]]
  /\ ev' = NoEv
  /\ UNCHANGED <<store, memory, clock, rounds, hist, ops>>

\* ------------------------------------------------------------- decline
\* POST /jobs/decline/:id, server.js:1477-1490: Job.findById finds nothing.
DeclineNotFound(w, j) ==
  /\ ops < MaxOps
  /\ jobs[j].status = "none"
  /\ ev' = [type |-> "declineResp", w |-> w, j |-> j, result |-> "notFound"]
  /\ ops' = ops + 1
  /\ UNCHANGED <<store, memory, clock, reqs, rounds, hist>>

\* server.js:1477-1484: Job.findById returns the document.
DeclineStart(i, w, j) ==
  /\ ops < MaxOps
  /\ LowestFreeReq(i)
  /\ jobs[j].status # "none"
  /\ reqs' = [reqs EXCEPT ![i] =
       [kind |-> "decline", pc |-> "gotJob", w |-> w, j |-> j, doc |-> jobs[j]]]
  /\ timers' = Answer(timers, w, j)
  /\ ev' = NoEv
  /\ ops' = ops + 1
  /\ UNCHANGED <<store, connectedWorkers, socks, pendingJobTimeouts, trackingJobs, clock,
                 rounds, hist>>

\* server.js:1492: the worker is not yet in the document's declinedBy
DeclinePushes(doc, name) == ~Includes(doc.declinedBy, name)

\* server.js:1497: the document read says this worker is the accepted one
DeclineResets(doc, name) == doc.acceptedBy = name /\ doc.status = "accepted"

DeclineWriteKeepsWorker(job, pushes, resets, name) ==
  LET a == IF pushes THEN [job EXCEPT !.declinedBy = Append(@, name)] ELSE job
  IN IF resets THEN [a EXCEPT !.status = "pending", !.acceptedBy = Null] ELSE a

DeclineWriteReplacesList(job, pushes, resets, name) ==
  LET a == IF pushes THEN [job EXCEPT !.declinedBy = <<name>>] ELSE job
  IN IF resets
     THEN [a EXCEPT !.status = "pending", !.acceptedBy = Null,
                    !.acceptedWorker = NullRec, !.acceptedAt = Null]
     ELSE a

\* The paths that job.save() of server.js:1508 writes, applied to a document.
DeclineWrite(job, pushes, resets, name) ==
  LET a == IF pushes THEN [job EXCEPT !.declinedBy = Append(@, name)] ELSE job
  IN IF resets
     THEN [a EXCEPT !.status = "pending", !.acceptedBy = Null,
                    !.acceptedWorker = NullRec, !.acceptedAt = Null]
     ELSE a

\* The effect of server.js:1492-1508 on the store, the tracking windows and
\* the handler's local document.
DeclineApply(i, rec) ==
  LET j == reqs[i].j
      name == NameOf[reqs[i].w]
      pushes == DeclinePushes(reqs[i].doc, name)
      resets == DeclineResets(reqs[i].doc, name)
      rq == [reqs EXCEPT ![i] = rec]
  IN /\ trackingJobs' = IF resets THEN [trackingJobs EXCEPT ![j] = Null]
                        ELSE trackingJobs
     /\ trackUntil' = IF resets THEN [trackUntil EXCEPT ![j] = 0] ELSE trackUntil
     /\ now' = now
     /\ jobs' = [jobs EXCEPT ![j] = DeclineWrite(@, pushes, resets, name)]
     /\ holders' = IF resets THEN [holders EXCEPT ![j] = {}] ELSE holders
     /\ UNCHANGED offeredAtCancel
     /\ reqs' = IF resets THEN EndRaces(rq, j) ELSE rq

LocalAfterDecline(i) ==
  DeclineWrite(reqs[i].doc, DeclinePushes(reqs[i].doc, NameOf[reqs[i].w]),
               DeclineResets(reqs[i].doc, NameOf[reqs[i].w]), NameOf[reqs[i].w])

\* server.js:1492-1515: the local document is modified and saved; it is
\* pending, so a dispatch round follows.
DeclineSave(i) ==
  /\ reqs[i].kind = "decline" /\ reqs[i].pc = "gotJob"
  /\ LocalAfterDecline(i).status = "pending"
  /\ DeclineApply(i, [reqs[i] EXCEPT !.pc = "saved", !.doc = LocalAfterDecline(i)])
  /\ ev' = NoEv
  /\ UNCHANGED <<wallet, userAvail, workerRec, connectedWorkers, socks, timers,
                 pendingJobTimeouts, rounds, ops>>

\* server.js:1492-1523: the local document is modified and saved; it is
\* not pending, so the call returns.
DeclineSaveDone(i) ==
  /\ reqs[i].kind = "decline" /\ reqs[i].pc = "gotJob"
  /\ LocalAfterDecline(i).status # "pending"
  /\ DeclineApply(i, Idle)
  /\ ev' = NoEv
  /\ UNCHANGED <<wallet, userAvail, workerRec, connectedWorkers, socks, timers,
                 pendingJobTimeouts, rounds, ops>>

\* server.js:1512-1523: jobUpdated is emitted and the next round starts from
\* the local document.
DeclineOffer(i, k) ==
  /\ reqs[i].kind = "decline" /\ reqs[i].pc = "saved"
  /\ LowestFreeRound(k)
  /\ offerJobToNextWorker(k, reqs[i].doc)
  /\ reqs' = [reqs EXCEPT ![i] = Idle]
  /\ ev' = NoEv
  /\ UNCHANGED <<store, connectedWorkers, socks, trackingJobs, clock, hist, ops>>

\* -------------------------------------------------------------- cancel
\* POST /jobs/cancel/:id, server.js:2267-2279: Job.findById finds nothing.
CancelNotFound(j) ==
  /\ ops < MaxOps
  /\ jobs[j].status = "none"
  /\ ev' = [type |-> "cancelResp", j |-> j, result |-> "notFound"]
  /\ ops' = ops + 1
  /\ UNCHANGED <<store, memory, clock, reqs, rounds, hist>>

\* server.js:2267-2276: Job.findById returns the document.
CancelStart(i, j) ==
  /\ ops < MaxOps
  /\ LowestFreeReq(i)
  /\ jobs[j].status # "none"
  /\ reqs' = [reqs EXCEPT ![i] = [kind |-> "cancel", pc |-> "gotJob", j |-> j, doc |-> jobs[j]]]
  /\ ev' = NoEv
  /\ ops' = ops + 1
  /\ UNCHANGED <<store, memory, clock, rounds, hist>>

\* History: the users to whom an offer of the job is outstanding (pushed,
\* its 60 s timer neither fired nor cleared).
OutstandingOffers(j) ==
  {SockUser[timers[h].to] : h \in {x \in 1..MaxTimers :
      timers[x].kind = "offer" /\ timers[x].job = j}}

\* The paths that job.save() of server.js:2319-2320 writes: status, when
\* the document read was not already cancelled.
CancelWrite(job, doc) ==
  IF doc.status # "cancelled" THEN [job EXCEPT !.status = "cancelled"] ELSE job

\* server.js:2281-2370: the cancellation is logged, the status is saved,
\* jobCancelled is broadcast and success is returned.
CancelSave(i) ==
  /\ reqs[i].kind = "cancel" /\ reqs[i].pc = "gotJob"
  /\ LET j == reqs[i].j
         written == CancelWrite(jobs[j], reqs[i].doc)
         rq == [reqs EXCEPT ![i] = Idle]
     IN /\ jobs' = [jobs EXCEPT ![j] = written]
        /\ holders' = IF written.status # jobs[j].status
                      THEN [holders EXCEPT ![j] = {}] ELSE holders
        /\ offeredAtCancel' = [offeredAtCancel EXCEPT ![j] = OutstandingOffers(j)]
        /\ reqs' = IF written.status # jobs[j].status THEN EndRaces(rq, j) ELSE rq
  /\ ev' = [type |-> "cancelResp", j |-> reqs[i].j, result |-> "success"]
  /\ UNCHANGED <<wallet, userAvail, workerRec, memory, clock, rounds, ops>>

\* ------------------------------------------------------------ registry
\* Map.prototype.set: an existing key keeps its place, a new key is appended.
MapSet(cw, entry) ==
  IF \E n \in 1..Len(cw) : cw[n].socketId = entry.socketId
  THEN [n \in 1..Len(cw) |-> IF cw[n].socketId = entry.socketId THEN entry ELSE cw[n]]
  ELSE Append(cw, entry)

\* Map.prototype.delete
MapDelete(cw, s) == SelectSeq(cw, LAMBDA e : e.socketId # s)

\* io.use, server.js:323-339: a socket connects with a valid token;
\* WorkerModel.findOne({ phone }).
HandshakeStart(i, s) ==
  /\ ops < MaxOps
  /\ LowestFreeReq(i)
  /\ socks[s] = "free"
  /\ socks' = [socks EXCEPT ![s] = "handshake"]
  /\ reqs' = [reqs EXCEPT ![i] =
       [kind |-> "handshake", s |-> s, existing |-> workerRec[SockUser[s]]]]
  /\ ev' = NoEv
  /\ ops' = ops + 1
  /\ UNCHANGED <<store, connectedWorkers, timers, pendingJobTimeouts, trackingJobs, clock,
                 rounds, hist>>

\* The registry entry of server.js:345-352.
ReassociatedEntry(s, existing) ==
  [socketId |-> s, name |-> existing.phone, phone |-> existing.phone,
   lat |-> existing.lat, lon |-> existing.lon,
   workerType |-> IF existing.skills = <<>> THEN Null ELSE existing.skills[1],
   isAvailable |-> "unset"]

Reassociate(i) ==
  IF reqs[i].existing = NullRec THEN connectedWorkers
  ELSE MapSet(connectedWorkers, ReassociatedEntry(reqs[i].s, reqs[i].existing))

\* server.js:340-360: the previous session is re-associated and next() is
\* called; the connection is established.
HandshakeConnect(i) ==
  /\ reqs[i].kind = "handshake"
  /\ connectedWorkers' = Reassociate(i)
  /\ socks' = [socks EXCEPT ![reqs[i].s] = "open"]
  /\ reqs' = [reqs EXCEPT ![i] = Idle]
  /\ ev' = NoEv
  /\ UNCHANGED <<store, timers, pendingJobTimeouts, trackingJobs, clock, rounds, hist, ops>>

\* server.js:340-360 when the client has gone before the middleware ends:
\* no connection event, hence no disconnect handler, for this socket.
HandshakeAbort(i) ==
  /\ reqs[i].kind = "handshake"
  /\ connectedWorkers' = Reassociate(i)
  /\ socks' = [socks EXCEPT ![reqs[i].s] = "closed"]
  /\ reqs' = [reqs EXCEPT ![i] = Idle]
  /\ ev' = NoEv
  /\ UNCHANGED <<store, timers, pendingJobTimeouts, trackingJobs, clock, rounds, hist, ops>>

\* socket.on("registerWorker"), server.js:395-426: the Worker document is
\* upserted.
RegisterStart(i, s, lat, lon, wt) ==
  /\ ops < MaxOps
  /\ LowestFreeReq(i)
  /\ socks[s] = "open"
  /\ workerRec' = [workerRec EXCEPT ![SockUser[s]] =
       [phone |-> PhoneOf[SockUser[s]], lat |-> lat, lon |-> lon,
        skills |-> IF @ = NullRec THEN <<>> ELSE @.skills]]
  /\ reqs' = [reqs EXCEPT ![i] =
       [kind |-> "register", s |-> s, lat |-> lat, lon |-> lon, wt |-> wt]]
  /\ ev' = NoEv
  /\ ops' = ops + 1
  /\ UNCHANGED <<wallet, jobs, userAvail, memory, clock, rounds, hist>>

\* The registry entry of server.js:428-436.
RegisteredEntry(s, lat, lon, wt) ==
  [socketId |-> s, name |-> NameOf[SockUser[s]], phone |-> PhoneOf[SockUser[s]],
   lat |-> lat, lon |-> lon, workerType |-> wt, isAvailable |-> "true"]

\* server.js:428-440
RegisterFinish(i) ==
  /\ reqs[i].kind = "register"
  /\ connectedWorkers' =
       MapSet(connectedWorkers,
              RegisteredEntry(reqs[i].s, reqs[i].lat, reqs[i].lon, reqs[i].wt))
  /\ reqs' = [reqs EXCEPT ![i] = Idle]
  /\ ev' = NoEv
  /\ UNCHANGED <<store, socks, timers, pendingJobTimeouts, trackingJobs, clock, rounds,
                 hist, ops>>

\* socket.on("disconnect"), server.js:595-611
Disconnect(s) ==
  /\ ops < MaxOps
  /\ socks[s] = "open"
  /\ socks' = [socks EXCEPT ![s] = "closed"]
  /\ connectedWorkers' = MapDelete(connectedWorkers, s)
  /\ ev' = NoEv
  /\ ops' = ops + 1
  /\ UNCHANGED <<store, timers, pendingJobTimeouts, trackingJobs, clock, reqs, rounds, hist>>

\* PUT /workers/availability, server.js:2457-2480: User.findOneAndUpdate
AvailabilityStart(i, w, b) ==
  /\ ops < MaxOps
  /\ LowestFreeReq(i)
  /\ userAvail' = [userAvail EXCEPT ![w] = b]
  /\ reqs' = [reqs EXCEPT ![i] = [kind |-> "availability", w |-> w, b |-> b]]
  /\ ev' = NoEv
  /\ ops' = ops + 1
  /\ UNCHANGED <<wallet, jobs, workerRec, memory, clock, rounds, hist>>

\* server.js:2510-2519: the first registry entry with the user's phone
SetEntryAvailable(cw, phone, b) ==
  LET hits == {n \in 1..Len(cw) : cw[n].phone = phone}
      first == CHOOSE n \in hits : \A m \in hits : n <= m
  IN IF hits = {} THEN cw
     ELSE [cw EXCEPT ![first] = [@ EXCEPT !.isAvailable = IF b THEN "true" ELSE "false"]]

\* server.js:2482-2540
AvailabilityFinish(i) ==
  /\ reqs[i].kind = "availability"
  /\ connectedWorkers' = SetEntryAvailable(connectedWorkers, PhoneOf[reqs[i].w], reqs[i].b)
  /\ reqs' = [reqs EXCEPT ![i] = Idle]
  /\ ev' = NoEv
  /\ UNCHANGED <<store, socks, timers, pendingJobTimeouts, trackingJobs, clock, rounds,
                 hist, ops>>

\* ------------------------------------------- location and attendance
\* socket.on("updateWorkerLocation"), server.js:452-468: the registry entry
\* of the socket takes the new position; WorkerModel.findOneAndUpdate
\* (upsert: false) writes it to the Worker document.
MapUpdateLocationByPhone(cw, s, lat, lon) ==
  [n \in 1..Len(cw) |->
     IF cw[n].phone = PhoneOf[SockUser[s]]
     THEN [cw[n] EXCEPT !.lat = lat, !.lon = lon] ELSE cw[n]]

MapUpdateLocation(cw, s, lat, lon) ==
  [n \in 1..Len(cw) |->
     IF cw[n].socketId = s THEN [cw[n] EXCEPT !.lat = lat, !.lon = lon] ELSE cw[n]]

LocationStart(i, s, lat, lon) ==
  /\ ops < MaxOps
  /\ LowestFreeReq(i)
  /\ socks[s] = "open"
  /\ connectedWorkers' = MapUpdateLocation(connectedWorkers, s, lat, lon)
  /\ workerRec' = [workerRec EXCEPT ![SockUser[s]] =
       IF @ = NullRec THEN NullRec ELSE [@ EXCEPT !.lat = lat, !.lon = lon]]
  /\ reqs' = [reqs EXCEPT ![i] =
       [kind |-> "location", pc |-> "gotWorker", s |-> s,
        updated |-> workerRec'[SockUser[s]]]]
  /\ ev' = NoEv
  /\ ops' = ops + 1
  /\ UNCHANGED <<wallet, jobs, userAvail, socks, timers, pendingJobTimeouts, trackingJobs, clock,
                 rounds, hist>>

\* server.js:473: no Worker document; the handler ends.
LocationNoWorker(i) ==
  /\ reqs[i].kind = "location" /\ reqs[i].pc = "gotWorker"
  /\ reqs[i].updated = NullRec
  /\ reqs' = [reqs EXCEPT ![i] = Idle]
  /\ ev' = NoEv
  /\ UNCHANGED <<store, memory, clock, rounds, hist, ops>>

\* Job.findOne({ 'acceptedWorker.id': id, status: 'accepted' }),
\* server.js:474-475.
AcceptedJobsOf(w) ==
  {j \in Jobs : /\ jobs[j].status = "accepted"
                /\ jobs[j].acceptedWorker # NullRec
                /\ jobs[j].acceptedWorker.id = w}

LocationFind(i) ==
  /\ reqs[i].kind = "location" /\ reqs[i].pc = "gotWorker"
  /\ reqs[i].updated # NullRec
  /\ \E d \in IF AcceptedJobsOf(SockUser[reqs[i].s]) = {} THEN {NullRec}
              ELSE {jobs[j] : j \in AcceptedJobsOf(SockUser[reqs[i].s])} :
       reqs' = [reqs EXCEPT ![i] = [@ EXCEPT !.pc = "gotJob"] @@ [doc |-> d]]
  /\ ev' = NoEv
  /\ UNCHANGED <<store, memory, clock, rounds, hist, ops>>

\* The test of server.js:478 on the job read by Job.findOne.
Forwards(doc) ==
  /\ doc # NullRec
  /\ trackingJobs[doc.id] = "running"
  /\ doc.attendanceStatus = Null

\* A location event: the targeted jobUpdated of server.js:484 when
\* forwarded (then job names the job) together with the
\* io.emit("workerLocationUpdate") of server.js:490-497.
LocationEvent(s, job, forwarded) ==
  [type |-> "location", phone |-> PhoneOf[SockUser[s]], job |-> job,
   forwarded |-> forwarded]

\* server.js:478-483: tracking is active; job.save() writes
\* acceptedWorker.location.
LocationForward(i) ==
  /\ reqs[i].kind = "location" /\ reqs[i].pc = "gotJob"
  /\ Forwards(reqs[i].doc)
  /\ jobs[reqs[i].doc.id].acceptedWorker # NullRec
  /\ jobs' = [jobs EXCEPT ![reqs[i].doc.id].acceptedWorker =
               [@ EXCEPT !.lat = reqs[i].updated.lat, !.lon = reqs[i].updated.lon]]
  /\ reqs' = [reqs EXCEPT ![i] = [@ EXCEPT !.pc = "saved"]]
  /\ ev' = NoEv
  /\ UNCHANGED <<wallet, userAvail, workerRec, memory, clock, rounds, hist, ops>>

\* server.js:484-497: the saved job is sent to the contractor and the
\* position is emitted to every socket.
LocationForwarded(i) ==
  /\ reqs[i].kind = "location" /\ reqs[i].pc = "saved"
  /\ reqs' = [reqs EXCEPT ![i] = Idle]
  /\ ev' = LocationEvent(reqs[i].s, reqs[i].doc.id, TRUE)
  /\ UNCHANGED <<store, memory, clock, rounds, hist, ops>>

\* server.js:476-497 when there is no accepted job or tracking is not
\* active: only io.emit("workerLocationUpdate").
LocationBroadcast(i) ==
  /\ reqs[i].kind = "location" /\ reqs[i].pc = "gotJob"
  /\ ~Forwards(reqs[i].doc)
  /\ reqs' = [reqs EXCEPT ![i] = Idle]
  /\ ev' = LocationEvent(reqs[i].s, Null, FALSE)
  /\ UNCHANGED <<store, memory, clock, rounds, hist, ops>>

\* Date.now() reaches the expiry stored for job j.
WindowExpires(j) ==
  /\ trackingJobs[j] = "running"
  /\ now' = trackUntil[j]
  /\ trackingJobs' = [k \in Jobs |->
       IF trackingJobs[k] = "running" /\ trackUntil[k] <= trackUntil[j]
       THEN "expired" ELSE trackingJobs[k]]
  /\ UNCHANGED trackUntil
  /\ ev' = NoEv
  /\ UNCHANGED <<store, connectedWorkers, socks, timers, pendingJobTimeouts, reqs,
                 rounds, hist, ops>>

\* POST /jobs/attendance/:id, server.js:1646-1652: Job.findById misses.
AttendanceNotFound(j) ==
  /\ ops < MaxOps
  /\ jobs[j].status = "none"
  /\ ev' = [type |-> "attendanceResp", j |-> j, result |-> "notFound"]
  /\ ops' = ops + 1
  /\ UNCHANGED <<store, memory, clock, reqs, rounds, hist>>

\* server.js:1646-1651: Job.findById returns the job.
AttendanceStart(i, j) ==
  /\ ops < MaxOps
  /\ LowestFreeReq(i)
  /\ jobs[j].status # "none"
  /\ reqs' = [reqs EXCEPT ![i] = [kind |-> "attendance", pc |-> "gotJob", j |-> j]]
  /\ ev' = NoEv
  /\ ops' = ops + 1
  /\ UNCHANGED <<store, memory, clock, rounds, hist>>

\* server.js:1653-1655: job.save() writes attendanceStatus.
AttendanceSave(i) ==
  /\ reqs[i].kind = "attendance" /\ reqs[i].pc = "gotJob"
  /\ jobs' = [jobs EXCEPT ![reqs[i].j].attendanceStatus = "Present"]
  /\ reqs' = [reqs EXCEPT ![i] = [@ EXCEPT !.pc = "saved"]]
  /\ ev' = NoEv
  /\ UNCHANGED <<wallet, userAvail, workerRec, memory, clock, rounds, hist, ops>>

\* server.js:1657-1667: the tracking window is deleted, jobUpdated is
\* sent and the response returned.
AttendanceFinish(i) ==
  /\ reqs[i].kind = "attendance" /\ reqs[i].pc = "saved"
  /\ trackingJobs' = [trackingJobs EXCEPT ![reqs[i].j] = Null]
  /\ trackUntil' = [trackUntil EXCEPT ![reqs[i].j] = 0]
  /\ now' = now
  /\ reqs' = [reqs EXCEPT ![i] = Idle]
  /\ ev' = [type |-> "attendanceResp", j |-> reqs[i].j, result |-> "success"]
  /\ UNCHANGED <<store, connectedWorkers, socks, timers, pendingJobTimeouts, rounds,
                 hist, ops>>

\* POST /jobs/pay/:id, server.js:1679-1680: Job.findById finds nothing.
PayNotFound(j) ==
  /\ ops < MaxOps
  /\ jobs[j].status = "none"
  /\ ev' = [type |-> "payResp", j |-> j, result |-> "notFound"]
  /\ ops' = ops + 1
  /\ UNCHANGED <<store, memory, clock, reqs, rounds, hist>>

\* server.js:1679: Job.findById returns the job.
PayStart(i, j) ==
  /\ ops < MaxOps
  /\ LowestFreeReq(i)
  /\ jobs[j].status # "none"
  /\ reqs' = [reqs EXCEPT ![i] =
       [kind |-> "pay", pc |-> "gotJob", j |-> j, doc |-> jobs[j]]]
  /\ ev' = NoEv
  /\ ops' = ops + 1
  /\ UNCHANGED <<store, memory, clock, rounds, hist>>

\* server.js:1682-1684: attendance is not "Present"; 400.
PayReject(i) ==
  /\ reqs[i].kind = "pay" /\ reqs[i].pc = "gotJob"
  /\ reqs[i].doc.attendanceStatus # "Present"
  /\ reqs' = [reqs EXCEPT ![i] = Idle]
  /\ ev' = [type |-> "payResp", j |-> reqs[i].j, result |-> "notPresent"]
  /\ UNCHANGED <<store, memory, clock, rounds, hist, ops>>

\* server.js:1686-1696: job.save() writes paymentStatus (and the payment
\* mode and times, which no other handler reads).
PaySave(i) ==
  /\ reqs[i].kind = "pay" /\ reqs[i].pc = "gotJob"
  /\ reqs[i].doc.attendanceStatus = "Present"
  /\ jobs' = [jobs EXCEPT ![reqs[i].j].paymentStatus = "Paid"]
  /\ reqs' = [reqs EXCEPT ![i] = [@ EXCEPT !.pc = "saved"]]
  /\ ev' = NoEv
  /\ UNCHANGED <<wallet, userAvail, workerRec, memory, clock, rounds, hist, ops>>

\* server.js:1698-1751: the worker is notified and credited (the wallet of
\* the worker is no input of dispatch), jobUpdated is sent and the response
\* returned.
PayFinish(i) ==
  /\ reqs[i].kind = "pay" /\ reqs[i].pc = "saved"
  /\ reqs' = [reqs EXCEPT ![i] = Idle]
  /\ ev' = [type |-> "payResp", j |-> reqs[i].j, result |-> "success"]
  /\ UNCHANGED <<store, memory, clock, rounds, hist, ops>>


\* ------------------------------------------------------- specification
\* The process starts with empty maps and no job; the users exist in the
\* store: the first has been online before (a Worker document from an
\* earlier session, User.isAvailable set), the second is new
\* (models/User.js:10, isAvailable defaults to false).
InitUsers ==
  /\ wallet = 250
  /\ userAvail = [w \in Workers |-> w = "w1"]
  /\ workerRec = [w \in Workers |->
       IF w = "w1" THEN [phone |-> PhoneOf[w], lat |-> 1100, lon |-> 7385, skills |-> <<>>]
       ELSE NullRec]

Init ==
  /\ jobs = [j \in Jobs |-> NoJob(j)]
  /\ InitUsers
  /\ connectedWorkers = <<>>
  /\ socks = [s \in Socks |-> "free"]
  /\ timers = [h \in 1..MaxTimers |-> NoTimer]
  /\ pendingJobTimeouts = [j \in Jobs |-> 0]
  /\ trackingJobs = [j \in Jobs |-> Null]
  /\ trackUntil = [j \in Jobs |-> 0]
  /\ now = 0
  /\ reqs = [i \in 1..MaxReq |-> Idle]
  /\ rounds = [i \in 1..MaxRounds |-> NoRound]
  /\ holders = [j \in Jobs |-> {}]
  /\ offeredAtCancel = [j \in Jobs |-> {}]
  /\ ev = NoEv
  /\ ops = 0

Selection ==
  \/ \E i \in 1..MaxRounds : RoundUserOffline(i)
  \/ \E i \in 1..MaxRounds : RoundCheckUnpaid(i)
  \/ \E i \in 1..MaxRounds : RoundSkipUnpaid(i)
  \/ \E i \in 1..MaxRounds : RoundPush(i)
  \/ \E i \in 1..MaxRounds : RoundWorkerGone(i)

Timeouts ==
  \/ \E h \in 1..MaxTimers, i \in 1..MaxRounds : TimerFire(h, i)
  \/ \E i \in 1..MaxRounds : TimerRetry(i)
  \/ \E i \in 1..MaxRounds : TimerStop(i)

Dispatch == Selection \/ Timeouts

JobRequests ==
  \/ \E i \in 1..MaxReq, j \in Jobs, lat \in JobLats, lon \in Lons, wt \in WorkerTypes :
       PostJob(i, j, lat, lon, wt)
  \/ \E i \in 1..MaxReq, k \in 1..MaxRounds : PostJobOffer(i, k)
  \/ \E w \in Workers, j \in Jobs : AcceptRejectUnpaid(w, j)
  \/ \E w \in Workers, j \in Jobs : AcceptNotFound(w, j)
  \/ \E i \in 1..MaxReq, w \in Workers, j \in Jobs : AcceptStart(i, w, j)
  \/ \E i \in 1..MaxReq : AcceptUpdate(i)
  \/ \E i \in 1..MaxReq : AcceptConflict(i)
  \/ \E i \in 1..MaxReq : AcceptFinish(i)
  \/ \E w \in Workers, j \in Jobs : DeclineNotFound(w, j)
  \/ \E i \in 1..MaxReq, w \in Workers, j \in Jobs : DeclineStart(i, w, j)
  \/ \E i \in 1..MaxReq : DeclineSave(i)
  \/ \E i \in 1..MaxReq : DeclineSaveDone(i)
  \/ \E i \in 1..MaxReq, k \in 1..MaxRounds : DeclineOffer(i, k)
  \/ \E j \in Jobs : CancelNotFound(j)
  \/ \E i \in 1..MaxReq, j \in Jobs : CancelStart(i, j)
  \/ \E i \in 1..MaxReq : CancelSave(i)

Registry ==
  \/ \E i \in 1..MaxReq, s \in Socks : HandshakeStart(i, s)
  \/ \E i \in 1..MaxReq : HandshakeConnect(i)
  \/ \E i \in 1..MaxReq : HandshakeAbort(i)
  \/ \E i \in 1..MaxReq, s \in Socks, lat \in WorkerLats, lon \in Lons, wt \in WorkerTypes :
       RegisterStart(i, s, lat, lon, wt)
  \/ \E i \in 1..MaxReq : RegisterFinish(i)
  \/ \E s \in Socks : Disconnect(s)
  \/ \E i \in 1..MaxReq, w \in Workers, b \in BOOLEAN : AvailabilityStart(i, w, b)
  \/ \E i \in 1..MaxReq : AvailabilityFinish(i)

Next == Dispatch \/ JobRequests \/ Registry

Spec == Init /\ [][Next]_vars

\* The state after POST /jobs/post of the first job while no worker is
\* connected: the job is pending and its round has armed the retry timer.
Posted ==
  /\ jobs = [j \in Jobs |-> IF j = JobIds[1] THEN NewJob(j, 1000, 7385, "mason")
                             ELSE NoJob(j)]
  /\ InitUsers
  /\ connectedWorkers = <<>>
  /\ socks = [s \in Socks |-> "free"]
  /\ timers = [h \in 1..MaxTimers |->
       IF h = 1 THEN [kind |-> "retry", job |-> JobIds[1], to |-> Null,
                      answered |-> FALSE]
       ELSE NoTimer]
  /\ pendingJobTimeouts = [j \in Jobs |-> IF j = JobIds[1] THEN 1 ELSE 0]
  /\ trackingJobs = [j \in Jobs |-> Null]
  /\ trackUntil = [j \in Jobs |-> 0]
  /\ now = 0
  /\ reqs = [i \in 1..MaxReq |-> Idle]
  /\ rounds = [i \in 1..MaxRounds |-> NoRound]
  /\ holders = [j \in Jobs |-> {}]
  /\ offeredAtCancel = [j \in Jobs |-> {}]

InitPosted == Posted /\ ev = NoEv /\ ops = 0

\* The accept, decline and cancel requests on the posted job, and the
\* retry timers of the rounds that find no candidate.
JobRequestsOn(j) ==
  \/ \E w \in Workers : AcceptRejectUnpaid(w, j)
  \/ \E i \in 1..MaxReq, w \in Workers : AcceptStart(i, w, j)
  \/ \E i \in 1..MaxReq : AcceptUpdate(i)
  \/ \E i \in 1..MaxReq : AcceptConflict(i)
  \/ \E i \in 1..MaxReq : AcceptFinish(i)
  \/ \E i \in 1..MaxReq, w \in Workers : DeclineStart(i, w, j)
  \/ \E i \in 1..MaxReq : DeclineSave(i)
  \/ \E i \in 1..MaxReq : DeclineSaveDone(i)
  \/ \E i \in 1..MaxReq, k \in 1..MaxRounds : DeclineOffer(i, k)
  \/ \E i \in 1..MaxReq : CancelStart(i, j)
  \/ \E i \in 1..MaxReq : CancelSave(i)

NextPosted == JobRequestsOn(JobIds[1])

SpecPosted == InitPosted /\ [][NextPosted]_vars

\* The state after the first user has connected (the handshake has
\* re-associated the earlier session), the first job has been posted and
\* offered to that user, and the second user has accepted it.
Accepted ==
  /\ jobs = [j \in Jobs |->
       IF j = JobIds[1]
       THEN [NewJob(j, 1000, 7385, "mason") EXCEPT
               !.status = "accepted", !.acceptedBy = NameOf["w2"],
               !.acceptedWorker = NullRec, !.acceptedAt = "set"]
       ELSE NoJob(j)]
  /\ InitUsers
  /\ connectedWorkers = <<ReassociatedEntry("s1", workerRec["w1"])>>
  /\ socks = [s \in Socks |-> IF s = "s1" THEN "open" ELSE "free"]
  /\ timers = [h \in 1..MaxTimers |-> NoTimer]
  /\ pendingJobTimeouts = [j \in Jobs |-> 0]
  /\ trackingJobs = [j \in Jobs |-> IF j = JobIds[1] THEN "running" ELSE Null]
  /\ trackUntil = [j \in Jobs |-> IF j = JobIds[1] THEN TrackingWindow ELSE 0]
  /\ now = 0
  /\ reqs = [i \in 1..MaxReq |-> Idle]
  /\ rounds = [i \in 1..MaxRounds |-> NoRound]
  /\ holders = [j \in Jobs |-> IF j = JobIds[1] THEN {"w2"} ELSE {}]
  /\ offeredAtCancel = [j \in Jobs |-> {}]

InitAccepted == Accepted /\ ev = NoEv /\ ops = 0

\* The requests on the accepted job and the rounds they start.
NextAccepted ==
  \/ JobRequestsOn(JobIds[1])
  \/ \E i \in 1..MaxRounds : RoundCheckUnpaid(i)
  \/ \E i \in 1..MaxRounds : RoundPush(i)

SpecAccepted == InitAccepted /\ [][NextAccepted]_vars

\* The state after both users have connected, registered as workers
\* (registerWorker: the first as a mason 3 km from the job site, the second
\* as a plumber 1 km from it) and set themselves online (PUT
\* /workers/availability).
TwoWorkers ==
  /\ jobs = [j \in Jobs |-> NoJob(j)]
  /\ userAvail = [w \in Workers |-> TRUE]
  /\ workerRec = [w \in Workers |->
       [phone |-> PhoneOf[w], lat |-> IF w = "w1" THEN 1300 ELSE 1100, lon |-> 7385,
        skills |-> <<>>]]
  /\ connectedWorkers = <<RegisteredEntry("s1", 1300, 7385, "mason"),
                          RegisteredEntry("s2", 1100, 7385, "plumber")>>
  /\ socks = [s \in Socks |-> IF s \in {"s1", "s2"} THEN "open" ELSE "free"]
  /\ timers = [h \in 1..MaxTimers |-> NoTimer]
  /\ pendingJobTimeouts = [j \in Jobs |-> 0]
  /\ trackingJobs = [j \in Jobs |-> Null]
  /\ trackUntil = [j \in Jobs |-> 0]
  /\ now = 0
  /\ reqs = [i \in 1..MaxReq |-> Idle]
  /\ rounds = [i \in 1..MaxRounds |-> NoRound]
  /\ holders = [j \in Jobs |-> {}]
  /\ offeredAtCancel = [j \in Jobs |-> {}]

InitTwoWorkers == TwoWorkers /\ wallet = 250 /\ ev = NoEv /\ ops = 0

\* One job is posted; the requests on it, its rounds and its timers.
NextTwoWorkers ==
  \/ \E i \in 1..MaxReq, lat \in JobLats, lon \in Lons, wt \in WorkerTypes :
       PostJob(i, JobIds[1], lat, lon, wt)
  \/ \E i \in 1..MaxReq, k \in 1..MaxRounds : PostJobOffer(i, k)
  \/ JobRequestsOn(JobIds[1])
  \/ \E i \in 1..MaxRounds : RoundCheckUnpaid(i)
  \/ \E i \in 1..MaxRounds : RoundSkipUnpaid(i)
  \/ \E i \in 1..MaxRounds : RoundPush(i)
  \/ Timeouts

SpecTwoWorkers == InitTwoWorkers /\ [][NextTwoWorkers]_vars

\* The posted job waits on its retry timer while workers connect, register
\* and disconnect.  The event loop runs every callback that is ready and
\* every armed timer fires: the dispatch steps are weakly fair.
RetrySteps ==
  \/ \E i \in 1..MaxRounds : RoundUserOffline(i)
  \/ \E i \in 1..MaxRounds : RoundCheckUnpaid(i)
  \/ \E i \in 1..MaxRounds : RoundPush(i)
  \/ \E i \in 1..MaxRounds : RoundWorkerGone(i)
  \/ \E h \in 1..MaxTimers, i \in 1..MaxRounds : TimerFire(h, i)
  \/ \E i \in 1..MaxRounds : TimerRetry(i)

NextRetry ==
  \/ RetrySteps
  \/ \E i \in 1..MaxReq, s \in Socks : HandshakeStart(i, s)
  \/ \E i \in 1..MaxReq : HandshakeConnect(i)
  \/ \E i \in 1..MaxReq, s \in Socks, lat \in WorkerLats, lon \in Lons, wt \in WorkerTypes :
       RegisterStart(i, s, lat, lon, wt)
  \/ \E i \in 1..MaxReq : RegisterFinish(i)
  \/ \E s \in Socks : Disconnect(s)

SpecRetry == InitPosted /\ [][NextRetry]_vars /\ WF_vars(RetrySteps)

\* A job accepted by a registered, connected worker, its tracking window
\* running; the worker sends location updates, attendance is marked and
\* time passes.
Tracked ==
  /\ InitUsers
  /\ jobs = [j \in Jobs |->
       IF j = JobIds[1]
       THEN [NewJob(j, 1000, 7385, "mason") EXCEPT
               !.status = "accepted", !.acceptedBy = NameOf["w1"],
               !.acceptedWorker = Snapshot("w1"), !.acceptedAt = "set"]
       ELSE NoJob(j)]
  /\ connectedWorkers = <<RegisteredEntry("s1", 1100, 7385, "mason")>>
  /\ socks = [s \in Socks |-> IF s = "s1" THEN "open" ELSE "free"]
  /\ timers = [h \in 1..MaxTimers |-> NoTimer]
  /\ pendingJobTimeouts = [j \in Jobs |-> 0]
  /\ trackingJobs = [j \in Jobs |-> IF j = JobIds[1] THEN "running" ELSE Null]
  /\ trackUntil = [j \in Jobs |-> IF j = JobIds[1] THEN TrackingWindow ELSE 0]
  /\ now = 0
  /\ reqs = [i \in 1..MaxReq |-> Idle]
  /\ rounds = [i \in 1..MaxRounds |-> NoRound]
  /\ holders = [j \in Jobs |-> IF j = JobIds[1] THEN {"w1"} ELSE {}]
  /\ offeredAtCancel = [j \in Jobs |-> {}]

InitTracked == Tracked /\ ev = NoEv /\ ops = 0

NextTracked ==
  \/ \E i \in 1..MaxReq, s \in Socks : HandshakeStart(i, s)
  \/ \E i \in 1..MaxReq : HandshakeConnect(i)
  \/ \E i \in 1..MaxReq, s \in Socks, lat \in WorkerLats, lon \in Lons :
       LocationStart(i, s, lat, lon)
  \/ \E i \in 1..MaxReq : LocationNoWorker(i)
  \/ \E i \in 1..MaxReq : LocationFind(i)
  \/ \E i \in 1..MaxReq : LocationForward(i)
  \/ \E i \in 1..MaxReq : LocationForwarded(i)
  \/ \E i \in 1..MaxReq : LocationBroadcast(i)
  \/ \E j \in Jobs : WindowExpires(j)
  \/ \E j \in Jobs : AttendanceNotFound(j)
  \/ \E i \in 1..MaxReq, j \in Jobs : AttendanceStart(i, j)
  \/ \E i \in 1..MaxReq : AttendanceSave(i)
  \/ \E i \in 1..MaxReq : AttendanceFinish(i)

SpecTracked == InitTracked /\ [][NextTracked]_vars

\* Declines of the accepted job by its accepted worker, one after another
\* or overlapping, and the rounds they start.
NextDeclined ==
  \/ \E i \in 1..MaxReq : DeclineStart(i, "w2", JobIds[1])
  \/ \E i \in 1..MaxReq : DeclineSave(i)
  \/ \E i \in 1..MaxReq, k \in 1..MaxRounds : DeclineOffer(i, k)
  \/ \E i \in 1..MaxRounds : RoundCheckUnpaid(i)
  \/ \E i \in 1..MaxRounds : RoundPush(i)

SpecDeclined == InitAccepted /\ [][NextDeclined]_vars

\* Posts over HTTP and over the socket, complete and with fields missing,
\* from a wallet that is empty, below the required balance or sufficient,
\* and the rounds of the jobs that are stored; no worker is connected.
Titles == {Null, "title"}
PostLats == JobLats \cup {0}
PostLons == Lons \cup {0}

InitPosting ==
  /\ jobs = [j \in Jobs |-> NoJob(j)]
  /\ wallet \in {0, 175, 250}
  /\ userAvail = [w \in Workers |-> FALSE]
  /\ workerRec = [w \in Workers |-> NullRec]
  /\ connectedWorkers = <<>>
  /\ socks = [s \in Socks |-> IF s = "s1" THEN "open" ELSE "free"]
  /\ timers = [h \in 1..MaxTimers |-> NoTimer]
  /\ pendingJobTimeouts = [j \in Jobs |-> 0]
  /\ trackingJobs = [j \in Jobs |-> Null]
  /\ trackUntil = [j \in Jobs |-> 0]
  /\ now = 0
  /\ reqs = [i \in 1..MaxReq |-> Idle]
  /\ rounds = [i \in 1..MaxRounds |-> NoRound]
  /\ holders = [j \in Jobs |-> {}]
  /\ offeredAtCancel = [j \in Jobs |-> {}]
  /\ ev = NoEv
  /\ ops = 0

NextPosting ==
  \/ \E title \in Titles, lat \in PostLats, lon \in PostLons :
       PostJobReject(title, lat, lon)
  \/ \E s \in Socks, title \in Titles, lat \in PostLats, lon \in PostLons :
       PostJobSocketReject(s, title, lat, lon)
  \/ PostJobInsufficient
  \/ \E s \in Socks : PostJobSocketInsufficient(s)
  \/ \E i \in 1..MaxReq, j \in Jobs, lat \in JobLats, lon \in Lons, wt \in WorkerTypes :
       PostJob(i, j, lat, lon, wt)
  \/ \E i \in 1..MaxReq, s \in Socks, j \in Jobs, lat \in JobLats, lon \in Lons,
        wt \in WorkerTypes : PostJobSocket(i, s, j, lat, lon, wt)
  \/ \E i \in 1..MaxReq, k \in 1..MaxRounds : PostJobOffer(i, k)
  \/ \E h \in 1..MaxTimers, i \in 1..MaxRounds : TimerFire(h, i)
  \/ \E i \in 1..MaxRounds : TimerRetry(i)

SpecPosting == InitPosting /\ [][NextPosting]_vars

\* The posted job while workers connect, register and disconnect and the
\* contractor may cancel it: its timers fire on a pending and on a
\* cancelled job.
NextTimers ==
  \/ NextRetry
  \/ \E i \in 1..MaxReq : CancelStart(i, JobIds[1])
  \/ \E i \in 1..MaxReq : CancelSave(i)
  \/ \E i \in 1..MaxRounds : TimerStop(i)

SpecTimers == InitPosted /\ [][NextTimers]_vars

\* The same, and a lookup in the store may fail.
StoreFaults ==
  \/ \E i \in 1..MaxRounds : RoundLookupFails(i)
  \/ \E i \in 1..MaxRounds : TimerReadFails(i)

NextFaulty == NextTimers \/ StoreFaults

SpecFaulty == InitPosted /\ [][NextFaulty]_vars

\* The accepted job of the tracked scenario: attendance is marked, the
\* contractor pays, and accept, decline and cancel requests and timeouts
\* keep arriving.
NextPaid ==
  \/ \E j \in Jobs : PayNotFound(j)
  \/ \E i \in 1..MaxReq : AttendanceStart(i, JobIds[1])
  \/ \E i \in 1..MaxReq : AttendanceSave(i)
  \/ \E i \in 1..MaxReq : AttendanceFinish(i)
  \/ \E i \in 1..MaxReq : PayStart(i, JobIds[1])
  \/ \E i \in 1..MaxReq : PayReject(i)
  \/ \E i \in 1..MaxReq : PaySave(i)
  \/ \E i \in 1..MaxReq : PayFinish(i)
  \/ NextPosted
  \/ Timeouts

SpecPaid == InitTracked /\ [][NextPaid]_vars

\* The requests on the posted job while time passes: a window opened by an
\* accept expires, the worker declines, and the job is accepted again later.
NextWindow ==
  \/ NextPosted
  \/ \E j \in Jobs : WindowExpires(j)

SpecWindow == InitPosted /\ [][NextWindow]_vars

\* Two registered workers switch between online and offline while one job
\* is posted and its rounds and timers run.
NextAvailability ==
  \/ \E i \in 1..MaxReq, lat \in JobLats, lon \in Lons, wt \in WorkerTypes :
       PostJob(i, JobIds[1], lat, lon, wt)
  \/ \E i \in 1..MaxReq, k \in 1..MaxRounds : PostJobOffer(i, k)
  \/ \E i \in 1..MaxReq, w \in Workers, b \in BOOLEAN : AvailabilityStart(i, w, b)
  \/ \E i \in 1..MaxReq : AvailabilityFinish(i)
  \/ \E i \in 1..MaxRounds : RoundUserOffline(i)
  \/ \E i \in 1..MaxRounds : RoundCheckUnpaid(i)
  \/ \E i \in 1..MaxRounds : RoundPush(i)
  \/ \E h \in 1..MaxTimers, i \in 1..MaxRounds : TimerFire(h, i)
  \/ \E i \in 1..MaxRounds : TimerRetry(i)

SpecAvailability == InitTwoWorkers /\ [][NextAvailability]_vars

\* Two registered, connected, online workers whose distances to the job
\* differ by less than the rounding step of findNearbyWorkers: the one
\* registered first is 1.04 km from the job, the other 0.96 km.
Neighbours ==
  /\ jobs = [j \in Jobs |-> NoJob(j)]
  /\ userAvail = [w \in Workers |-> TRUE]
  /\ workerRec = [w \in Workers |->
       [phone |-> PhoneOf[w], lat |-> IF w = "w1" THEN 1104 ELSE 1096, lon |-> 7385,
        skills |-> <<>>]]
  /\ connectedWorkers = <<RegisteredEntry("s1", 1104, 7385, "mason"),
                          RegisteredEntry("s2", 1096, 7385, "mason")>>
  /\ socks = [s \in Socks |-> IF s \in {"s1", "s2"} THEN "open" ELSE "free"]
  /\ timers = [h \in 1..MaxTimers |-> NoTimer]
  /\ pendingJobTimeouts = [j \in Jobs |-> 0]
  /\ trackingJobs = [j \in Jobs |-> Null]
  /\ trackUntil = [j \in Jobs |-> 0]
  /\ now = 0
  /\ reqs = [i \in 1..MaxReq |-> Idle]
  /\ rounds = [i \in 1..MaxRounds |-> NoRound]
  /\ holders = [j \in Jobs |-> {}]
  /\ offeredAtCancel = [j \in Jobs |-> {}]

InitNeighbours == Neighbours /\ wallet = 250 /\ ev = NoEv /\ ops = 0

SpecNeighbours == InitNeighbours /\ [][NextAvailability]_vars

\* The tracked scenario with the whole life of connections: sockets
\* connect, register, send locations and disconnect.
NextConnections ==
  \/ \E i \in 1..MaxReq, s \in Socks : HandshakeStart(i, s)
  \/ \E i \in 1..MaxReq : HandshakeConnect(i)
  \/ \E i \in 1..MaxReq, s \in Socks, lat \in WorkerLats, lon \in Lons :
       LocationStart(i, s, lat, lon)
  \/ \E i \in 1..MaxReq : LocationNoWorker(i)
  \/ \E i \in 1..MaxReq : LocationFind(i)
  \/ \E i \in 1..MaxReq : LocationForward(i)
  \/ \E i \in 1..MaxReq : LocationForwarded(i)
  \/ \E i \in 1..MaxReq : LocationBroadcast(i)
  \/ \E i \in 1..MaxReq, s \in Socks, lat \in WorkerLats, lon \in Lons, wt \in WorkerTypes :
       RegisterStart(i, s, lat, lon, wt)
  \/ \E i \in 1..MaxReq : RegisterFinish(i)
  \/ \E s \in Socks : Disconnect(s)

SpecConnections == InitTracked /\ [][NextConnections]_vars

\* The requests on the posted job while the notification store may fail.
NextNotify ==
  \/ NextPosted
  \/ \E i \in 1..MaxReq : AcceptNotifyFails(i)

SpecNotify == InitPosted /\ [][NextNotify]_vars

\* The accepted job is cancelled, a second job is posted and workers send
\* accepts for it.
NextCancelled ==
  \/ \E i \in 1..MaxReq : CancelStart(i, JobIds[1])
  \/ \E i \in 1..MaxReq : CancelSave(i)
  \/ \E i \in 1..MaxReq, lat \in JobLats, lon \in Lons, wt \in WorkerTypes :
       PostJob(i, JobIds[2], lat, lon, wt)
  \/ \E i \in 1..MaxReq, k \in 1..MaxRounds : PostJobOffer(i, k)
  \/ \E w \in Workers : AcceptRejectUnpaid(w, JobIds[2])
  \/ \E i \in 1..MaxReq, w \in Workers : AcceptStart(i, w, JobIds[2])
  \/ \E i \in 1..MaxReq : AcceptUpdate(i)
  \/ \E i \in 1..MaxReq : AcceptConflict(i)
  \/ \E i \in 1..MaxReq : AcceptFinish(i)
  \/ \E i \in 1..MaxRounds : RoundCheckUnpaid(i)
  \/ \E i \in 1..MaxRounds : RoundPush(i)
  \/ Timeouts

SpecCancelled == InitAccepted /\ [][NextCancelled]_vars

\* Every operation that writes the accepted job of the tracked scenario:
\* declines, a further accept, cancel, attendance, payment and timeouts.
NextWriters ==
  \/ \E i \in 1..MaxReq, w \in Workers : DeclineStart(i, w, JobIds[1])
  \/ \E i \in 1..MaxReq : DeclineSave(i)
  \/ \E i \in 1..MaxReq : DeclineSaveDone(i)
  \/ \E i \in 1..MaxReq, k \in 1..MaxRounds : DeclineOffer(i, k)
  \/ \E i \in 1..MaxReq : AcceptStart(i, "w2", JobIds[1])
  \/ \E i \in 1..MaxReq : AcceptUpdate(i)
  \/ \E i \in 1..MaxReq : AcceptConflict(i)
  \/ \E i \in 1..MaxReq : AcceptFinish(i)
  \/ \E i \in 1..MaxReq : CancelStart(i, JobIds[1])
  \/ \E i \in 1..MaxReq : CancelSave(i)
  \/ \E i \in 1..MaxReq : AttendanceStart(i, JobIds[1])
  \/ \E i \in 1..MaxReq : AttendanceSave(i)
  \/ \E i \in 1..MaxReq : AttendanceFinish(i)
  \/ \E i \in 1..MaxReq : PayStart(i, JobIds[1])
  \/ \E i \in 1..MaxReq : PayReject(i)
  \/ \E i \in 1..MaxReq : PaySave(i)
  \/ \E i \in 1..MaxReq : PayFinish(i)
  \/ Timeouts

SpecWriters == InitTracked /\ [][NextWriters]_vars

\* =========================================================== properties
Unpaid(j) == jobs[j].paymentStatus # "Paid"

\* C1: every job has at most one accepted worker: of the accept calls that
\* succeeded on a job since the job was last pending or cancelled, at most
\* one remains, and it is the worker the job records as acceptedBy.
C1_OneAcceptedWorker ==
  \A j \in Jobs :
    /\ Cardinality(holders[j]) <= 1
    /\ \A w \in holders[j] :
         jobs[j].status = "accepted" /\ jobs[j].acceptedBy = NameOf[w]

\* C1 witness: a worker holds the acceptance of a job while another
\* worker's accept call on the same job waits for its conditional update.
C1_Witness ==
  \E j \in Jobs, i \in 1..MaxReq :
    /\ holders[j] # {}
    /\ reqs[i].kind = "accept" /\ reqs[i].pc = "gotWorker" /\ reqs[i].j = j
    /\ reqs[i].w \notin holders[j]

\* C2: a job has a non-null acceptedBy exactly when its status is
\* "accepted".
C2_AcceptedByIffAccepted ==
  \A j \in Jobs : (jobs[j].acceptedBy # Null) <=> (jobs[j].status = "accepted")

\* C3: of the accept calls racing for a pending job exactly one succeeds and
\* is stored as acceptedBy; a call that loses the race gets the conflict
\* response while the job stays accepted by the winner.
C3_ExactlyOneWinner ==
  /\ \A i \in 1..MaxReq :
       (reqs[i].kind = "accept" /\ reqs[i].pc = "gotUpdate" /\ reqs[i].race) =>
         /\ jobs[reqs[i].j].status = "accepted"
         /\ jobs[reqs[i].j].acceptedBy = NameOf[reqs[i].w]
         /\ holders[reqs[i].j] = {reqs[i].w}
  /\ (ev.type = "acceptResp" /\ ev.race /\ ev.result = "success") =>
       /\ jobs[ev.j].status = "accepted"
       /\ jobs[ev.j].acceptedBy = NameOf[ev.w]
       /\ holders[ev.j] = {ev.w}
  /\ (ev.type = "acceptResp" /\ ev.race /\ ev.result = "conflict") =>
       /\ jobs[ev.j].status = "accepted"
       /\ Cardinality(holders[ev.j]) = 1
       /\ \A w \in holders[ev.j] : jobs[ev.j].acceptedBy = NameOf[w]

\* C3 witness: a worker's accept call, started while the job was pending,
\* has just been answered with the conflict response because another
\* worker's call won.
C3_Witness ==
  /\ ev.type = "acceptResp" /\ ev.race /\ ev.result = "conflict"
  /\ holders[ev.j] # {} /\ ev.w \notin holders[ev.j]

\* C4: no round started after a worker's decline was stored in the job's
\* declinedBy pushes newJob for that job to a connection of that worker.
C4_NoOfferAfterDecline ==
  ev.type = "newJob" => ~Includes(ev.start, NameOf[SockUser[ev.sock]])

\* C5: no worker is the accepted worker of two unpaid jobs at once.
C5_OneUnpaidJobPerWorker ==
  \A w \in Workers :
    Cardinality({j \in Jobs : /\ jobs[j].status = "accepted"
                              /\ jobs[j].acceptedBy = NameOf[w]
                              /\ Unpaid(j)}) <= 1

\* C6: no round pushes an offer to a worker who, when the round selected
\* that worker, was the accepted worker of another unpaid job.
C6_NoOfferToBusyWorker ==
  ev.type = "newJob" => ~ev.held

\* C7: no offer is pushed for a job whose status is "cancelled".
C7_NoOfferAfterCancel ==
  ev.type = "newJob" => jobs[ev.job].status # "cancelled"

\* C8: an accept call that a worker makes after a cancel of the job, saved
\* while an offer of the job to that worker was outstanding, does not
\* succeed: its conditional update matches nothing, it is not answered with
\* success, and no worker is recorded by it.
C8_NoAcceptAfterCancel ==
  /\ \A i \in 1..MaxReq :
       (/\ reqs[i].kind = "accept" /\ reqs[i].st0 = "cancelled"
        /\ reqs[i].w \in offeredAtCancel[reqs[i].j]) => reqs[i].pc # "gotUpdate"
  /\ (/\ ev.type = "acceptResp" /\ ev.st0 = "cancelled"
      /\ ev.w \in offeredAtCancel[ev.j]) => ev.result # "success"

\* C9: when a cancel call has completed, the job has no armed timer in
\* pendingJobTimeouts and no tracking window in trackingJobs.
C9_CancelTearsDown ==
  (ev.type = "cancelResp" /\ ev.result = "success") =>
    /\ ~(pendingJobTimeouts[ev.j] # 0 /\ timers[pendingJobTimeouts[ev.j]] # NoTimer)
    /\ trackingJobs[ev.j] = Null

\* C10: a job whose status is "cancelled" keeps that status in every step.
C10_CancelledIsFinal ==
  [][\A j \in Jobs : jobs[j].status = "cancelled" => jobs'[j].status = "cancelled"]_vars

\* The timer handles of a job that are scheduled and have neither fired nor
\* been cleared.
LiveTimers(j) == {h \in 1..MaxTimers : timers[h] # NoTimer /\ timers[h].job = j}

\* C11: for every job, at most one offer or retry timer is live at any
\* instant.
C11_OneLiveTimerPerJob ==
  \A j \in Jobs : Cardinality(LiveTimers(j)) <= 1

\* The users that hold an open offer of a job: the job was pushed to them,
\* they have not answered it and its 60 s timer has not fired.
OpenOffers(j) ==
  {SockUser[timers[h].to] : h \in {x \in LiveTimers(j) :
      timers[x].kind = "offer" /\ ~timers[x].answered}}

\* C12: at most one worker at a time holds an open offer of a job.
C12_OneOpenOfferPerJob ==
  \A j \in Jobs : Cardinality(OpenOffers(j)) <= 1

\* A live worker that a round for job j would select if it reached it: its
\* socket is connected, its entry passes findNearbyWorkers, the user is
\* online, has not declined j and has no unpaid job.
EligibleEntry(j, e) ==
  /\ socks[e.socketId] = "open"
  /\ Len(findNearbyWorkers([lat |-> jobs[j].lat, lon |-> jobs[j].lon,
                            workerType |-> jobs[j].workerType], <<e>>)) = 1
  /\ UserAvailable(e.phone)
  /\ ~Includes(jobs[j].declinedBy, e.name)
  /\ ~HasUnpaidJob(e.name)

EligibleLive(j) ==
  \E n \in 1..Len(connectedWorkers) : EligibleEntry(j, connectedWorkers[n])

Waiting(j) == jobs[j].status = "pending" /\ EligibleLive(j)

\* C13: a pending job for which an eligible worker is registered is
\* eventually offered to a worker, unless the job leaves pending or the
\* worker stops being eligible first.
C13_RetryOffers ==
  \A j \in Jobs :
    Waiting(j) ~> ((ev.type = "newJob" /\ ev.job = j) \/ ~Waiting(j))

\* The declared worker type of the registry entry of socket s.
DeclaredType(s) ==
  {connectedWorkers[n].workerType :
     n \in {m \in 1..Len(connectedWorkers) : connectedWorkers[m].socketId = s}}

\* C14: a job that carries a worker type is pushed only to a worker whose
\* declared worker type equals it.
C14_OfferMatchesType ==
  (ev.type = "newJob" /\ jobs[ev.job].workerType # Null)
    => DeclaredType(ev.sock) = {jobs[ev.job].workerType}

\* Another user than the one of socket s has an eligible entry for job j.
OtherEligible(j, s) ==
  \E n \in 1..Len(connectedWorkers) :
    /\ SockUser[connectedWorkers[n].socketId] # SockUser[s]
    /\ EligibleEntry(j, connectedWorkers[n])

\* C15: the round that follows the expiry of a worker's unanswered offer
\* pushes the job to that worker again only if no other eligible worker
\* exists.
C15_NextWorkerAfterTimeout ==
  (ev.type = "newJob" /\ ev.after # Null /\ SockUser[ev.sock] = SockUser[ev.after])
    => ~OtherEligible(ev.job, ev.after)

\* The jobs that are accepted by the worker with the given phone.
AcceptedJobsOfPhone(phone) ==
  {j \in Jobs : /\ jobs[j].status = "accepted"
                /\ jobs[j].acceptedWorker # NullRec
                /\ jobs[j].acceptedWorker.phone = phone}

\* C16: a location update of the accepted worker of job j is emitted only
\* while j's tracking window exists and has not expired and j has no
\* attendance mark.
C16_ForwardOnlyWhileTracking ==
  ev.type = "location" =>
    \A j \in AcceptedJobsOfPhone(ev.phone) :
      trackingJobs[j] = "running" /\ jobs[j].attendanceStatus = Null

\* A round for job j begins in this step: a call of offerJobToNextWorker
\* takes a free slot, or ends at once by arming the retry timer.
RoundStarts(j) ==
  \E k \in 1..MaxRounds :
    /\ rounds[k] = NoRound
    /\ \/ rounds'[k] # NoRound /\ rounds'[k].doc.id = j
       \/ /\ rounds'[k] = NoRound
          /\ pendingJobTimeouts'[j] # 0
          /\ timers'[pendingJobTimeouts'[j]].kind = "retry"
          /\ \A h \in 1..MaxTimers :
               (timers[h] # NoTimer /\ h = pendingJobTimeouts[j]
                  /\ h # pendingJobTimeouts'[j]) => timers'[h] = NoTimer

\* C17: a decline by the worker who is the job's accepted worker when the
\* call reads the job writes status pending, clears acceptedBy,
\* acceptedWorker and acceptedAt, has the worker in declinedBy, removes the
\* tracking window, and the handler's next step, before it returns, starts
\* a dispatch round for the job.
C17_DeclineByAcceptedResets ==
  [][\A i \in 1..MaxReq :
       (reqs[i].kind = "decline" /\ reqs'[i] # reqs[i]) =>
         LET j == reqs[i].j
             name == NameOf[reqs[i].w]
         IN /\ (reqs[i].pc = "gotJob" /\ reqs[i].doc.status = "accepted"
                  /\ reqs[i].doc.acceptedBy = name) =>
                 /\ jobs'[j].status = "pending"
                 /\ jobs'[j].acceptedBy = Null
                 /\ jobs'[j].acceptedWorker = NullRec
                 /\ jobs'[j].acceptedAt = Null
                 /\ Includes(jobs'[j].declinedBy, name)
                 /\ trackingJobs'[j] = Null
                 /\ reqs'[i].kind = "decline" /\ reqs'[i].pc = "saved"
            /\ reqs[i].pc = "saved" => RoundStarts(j)]_vars

\* The accepted worker of the first job has declined it: the job is
\* pending again without tracking window and its new round is under way.
C17_Witness ==
  /\ jobs[JobIds[1]].status = "pending"
  /\ Includes(jobs[JobIds[1]].declinedBy, NameOf["w2"])
  /\ trackingJobs[JobIds[1]] = Null
  /\ \E k \in 1..MaxRounds : rounds[k] # NoRound /\ rounds[k].doc.id = JobIds[1]

\* The scheduled callbacks without the history field answered.
ArmedTimers ==
  [h \in 1..MaxTimers |->
     IF timers[h] = NoTimer THEN NoTimer
     ELSE [kind |-> timers[h].kind, job |-> timers[h].job, to |-> timers[h].to]]

\* C18: the steps of an accept call that fails (unpaid job, job not found,
\* job not pending) leave every job document, the armed timers and their
\* map, and the tracking windows as they were.
C18_FailedAcceptChangesNothing ==
  [][(\/ ev'.type = "acceptResp" /\ ev'.result # "success"
      \/ \E i \in 1..MaxReq : reqs[i] = Idle /\ reqs'[i].kind = "accept")
       => /\ jobs' = jobs
          /\ ArmedTimers' = ArmedTimers
          /\ pendingJobTimeouts' = pendingJobTimeouts
          /\ trackingJobs' = trackingJobs]_vars

\* An accept has returned a conflict while the job's timer is armed.
C18_Witness ==
  /\ ev.type = "acceptResp" /\ ev.result = "conflict"
  /\ pendingJobTimeouts[ev.j] # 0
  /\ timers[pendingJobTimeouts[ev.j]] # NoTimer

\* C19: a post with a missing title or missing coordinates is answered in
\* the step that receives it and creates no state: no job is stored, the
\* wallet keeps its balance, no handler stays in flight, and no round or
\* timer is started.
C19_InvalidPostCreatesNothing ==
  [][(ev'.type \in {"postResp", "postError"} /\ ev'.result = "missing")
       => /\ jobs' = jobs
          /\ wallet' = wallet
          /\ reqs' = reqs
          /\ rounds' = rounds
          /\ timers' = timers
          /\ pendingJobTimeouts' = pendingJobTimeouts]_vars

\* A post with missing fields has been rejected while the wallet could
\* have paid the fee and a job id was free.
C19_Witness ==
  /\ ev.type \in {"postResp", "postError"} /\ ev.result = "missing"
  /\ wallet >= 200
  /\ UnusedJobs # {}

\* An accept of job j has succeeded and returned, and j is accepted.
AcceptDone(j) ==
  /\ jobs[j].status = "accepted"
  /\ holders[j] # {}
  /\ \A i \in 1..MaxReq : ~(reqs[i].kind = "accept" /\ reqs[i].j = j)

\* C20: once an accept of job j has succeeded, and while j stays accepted,
\* no offer of j is pushed and no timer of j is live.
C20_NoOfferNoTimerWhileAccepted ==
  \A j \in Jobs :
    AcceptDone(j) => /\ LiveTimers(j) = {}
                     /\ ~(ev.type = "newJob" /\ ev.job = j)

\* Request i wrote job j in this step, having read it while worker w was
\* its accepted worker.
WroteAfterReading(i, j, w) ==
  /\ reqs[i].kind \in {"decline", "cancel"}
  /\ reqs[i].j = j
  /\ reqs[i].pc = "gotJob"
  /\ reqs'[i] # reqs[i]
  /\ reqs[i].doc.status = "accepted"
  /\ reqs[i].doc.acceptedBy = NameOf[w]

\* C21: while worker w holds job j after a successful accept, the job's
\* status, acceptedBy and acceptedWorker are changed only by a decline of w
\* or a cancel that read the job under that acceptance.
C21_AcceptanceNotOverwritten ==
  [][\A j \in Jobs, w \in Workers :
       (/\ holders[j] = {w}
        /\ jobs[j].status = "accepted" /\ jobs[j].acceptedBy = NameOf[w]
        /\ \/ jobs'[j].status # jobs[j].status
           \/ jobs'[j].acceptedBy # jobs[j].acceptedBy
           \/ jobs'[j].acceptedWorker # jobs[j].acceptedWorker)
       => \E i \in 1..MaxReq :
            /\ WroteAfterReading(i, j, w)
            /\ reqs[i].kind = "decline" => reqs[i].w = w]_vars

\* Slot k holds a running call of offerJobToNextWorker.
RoundRunning(k) == rounds[k].pc \in {"gotUser", "gotUnpaid"}

\* C22: every call of offerJobToNextWorker eventually returns, also when
\* the candidate it selected has no live connection at push time.
C22_RoundTerminates ==
  \A k \in 1..MaxRounds : RoundRunning(k) ~> ~RoundRunning(k)

\* A round or timer callback of job j is in progress, or a post or decline
\* handler has saved j and is about to start its round.
RoundPending(j) ==
  \/ \E k \in 1..MaxRounds : rounds[k] # NoRound /\ rounds[k].doc.id = j
  \/ \E i \in 1..MaxReq :
       /\ reqs[i].kind \in {"post", "decline"}
       /\ reqs[i].pc = "saved"
       /\ reqs[i].doc.id = j

\* C23: a pending job has a live offer or retry timer or a dispatch round
\* in progress.
C23_PendingNeverStalled ==
  \A j \in Jobs :
    jobs[j].status = "pending" => (LiveTimers(j) # {} \/ RoundPending(j))

\* The round that a timer callback of round slot i has started: the previous
\* timer of the job is cleared and either the first worker of a selection
\* from the current registry is being evaluated or, with nobody to offer
\* to, the retry timer is armed.
FreshRound(i) ==
  LET doc == rounds[i].doc
      cands == findNearbyWorkers(
                 [lat |-> doc.lat, lon |-> doc.lon, workerType |-> doc.workerType],
                 connectedWorkers)
      k == NextCandidate(cands, doc.declinedBy, 1)
  IN /\ ev'.type # "newJob"
     /\ IF k = 0
        THEN /\ rounds'[i] = NoRound
             /\ pendingJobTimeouts'[doc.id] # 0
             /\ timers'[pendingJobTimeouts'[doc.id]].kind = "retry"
             /\ timers'[pendingJobTimeouts'[doc.id]].job = doc.id
        ELSE /\ rounds'[i].pc = "gotUser"
             /\ rounds'[i].doc = doc
             /\ rounds'[i].cands = cands
             /\ rounds'[i].idx = k
             /\ pendingJobTimeouts'[doc.id] = 0

\* C24: the callback of a fired timer that read the job as pending starts a
\* fresh round over the current registry; one that read it accepted or
\* cancelled (or did not find it) pushes nothing and arms no timer.
C24_TimerCallbackByStatus ==
  [][\A i \in 1..MaxRounds :
       (rounds[i].pc = "timerRead" /\ rounds'[i] # rounds[i])
       => IF rounds[i].doc.status = "pending"
          THEN FreshRound(i)
          ELSE /\ ev'.type # "newJob"
               /\ timers' = timers
               /\ pendingJobTimeouts' = pendingJobTimeouts
               /\ rounds'[i] = NoRound]_vars

C24_Witness ==
  \E i \in 1..MaxRounds :
    /\ rounds[i].pc = "gotUser"
    /\ rounds[i].after # Null
    /\ rounds[i].doc.status = "pending"

\* C25: once a job is paid its status does not return to pending, its
\* acceptedBy is not cleared and it is not offered again.
C25_PaidIsFinal ==
  [][\A j \in Jobs :
       jobs[j].paymentStatus = "Paid"
       => /\ jobs[j].status # "pending" => jobs'[j].status # "pending"
          /\ jobs[j].acceptedBy # Null => jobs'[j].acceptedBy # Null
          /\ ~(ev'.type = "newJob" /\ ev'.job = j)]_vars

\* C26: a successful accept at time t sets the expiry of the job's tracking
\* window to t + 600 s, and while the window's entry stays no step moves
\* the expiry later.
C26_WindowIsTenMinutes ==
  [][\A i \in 1..MaxReq :
       /\ (reqs[i].kind = "accept" /\ reqs[i].pc = "gotUpdate" /\ reqs'[i] = Idle)
          => trackUntil'[reqs[i].j] = now + 600 * 1000
       /\ \A j \in Jobs :
            (trackingJobs[j] # Null /\ trackingJobs'[j] # Null)
            => trackUntil'[j] <= trackUntil[j]]_vars

\* io.emit("workerLocationUpdate", ...), server.js:490-494: the sockets the
\* location event of the current state is emitted to.
LocationRecipients == {s \in Socks : socks[s] = "open"}

\* C27: the location of a worker is emitted to no connection other than
\* those of the contractor of the job the worker has accepted.  Every socket
\* of Socks belongs to a worker, none to the contractor: the only recipient
\* allowed here is a connection of the sending worker.
C27_LocationOnlyToContractor ==
  ev.type = "location" =>
    \A s \in LocationRecipients : PhoneOf[SockUser[s]] = ev.phone

\* The number of times name occurs in the sequence seq.
Occurrences(seq, name) == Cardinality({k \in 1..Len(seq) : seq[k] = name})

\* C28: however many declines of a job a worker has sent, sequential or
\* overlapping, the worker appears in the job's declinedBy at most once.
C28_DeclinedByHasNoDuplicate ==
  \A j \in Jobs, w \in Workers : Occurrences(jobs[j].declinedBy, NameOf[w]) <= 1

\* C29: a round pushes an offer only to a worker whose User.isAvailable was
\* true when the round evaluated that worker, whatever the registry entry
\* says.
C29_NoOfferToUserOffline ==
  [][\A i \in 1..MaxRounds :
       (/\ rounds[i].pc = "gotUnpaid"
        /\ rounds'[i] = NoRound
        /\ ev'.type = "newJob"
        /\ ev'.sock = Candidate(i).socketId)
       => rounds[i].avail]_vars

\* An offer has gone to the farther worker while the nearer one is offline
\* in the User model and its registry entry is not flagged offline.
C29_Witness ==
  /\ ev.type = "newJob"
  /\ ev.name = NameOf["w1"]
  /\ ~userAvail["w2"]
  /\ \E n \in 1..Len(connectedWorkers) :
       /\ connectedWorkers[n].phone = PhoneOf["w2"]
       /\ connectedWorkers[n].isAvailable # "false"

\* C30: no newJob is emitted to a worker once a toggle to offline has
\* stored isAvailable = false for that worker.
C30_NoOfferAfterToggleOffline ==
  ev.type = "newJob" => \A w \in Workers : NameOf[w] = ev.name => userAvail[w]

\* The distance of registry entry e from job j, before rounding.
EntryDistance(j, e) == DistKm(jobs[j].lat, jobs[j].lon, e.lat, e.lon)

\* C31: the worker a round offers the job to is within the radius and no
\* other eligible live worker is strictly closer to the job.
C31_OfferToNearest ==
  ev.type = "newJob" =>
    \A n \in 1..Len(connectedWorkers) :
      connectedWorkers[n].socketId = ev.sock =>
        /\ EntryDistance(ev.job, connectedWorkers[n]) <= RADIUS_KM
        /\ ~\E m \in 1..Len(connectedWorkers) :
              /\ EligibleEntry(ev.job, connectedWorkers[m])
              /\ EntryDistance(ev.job, connectedWorkers[m])
                   < EntryDistance(ev.job, connectedWorkers[n])

\* C32: an accepted job has an acceptedWorker snapshot.
C32_AcceptedHasSnapshot ==
  \A j \in Jobs : jobs[j].status = "accepted" => jobs[j].acceptedWorker # NullRec

\* C33: every entry of the worker registry is keyed by a socket that is
\* connected.
C33_EntriesOfConnectedSockets ==
  \A n \in 1..Len(connectedWorkers) : socks[connectedWorkers[n].socketId] = "open"

\* The registry entries keyed by connections other than c, in map order.
EntriesExcept(cw, c) == SelectSeq(cw, LAMBDA e : e.socketId # c)

HasEntry(cw, c) == \E n \in 1..Len(cw) : cw[n].socketId = c

\* C34: registerWorker, updateWorkerLocation and disconnect on connection c
\* leave every registry entry keyed by another connection unchanged, and
\* updateWorkerLocation creates no entry.
C34_OnlyOwnEntry ==
  [][/\ \A i \in 1..MaxReq :
          (reqs[i].kind = "register" /\ reqs'[i] = Idle)
          => EntriesExcept(connectedWorkers', reqs[i].s)
               = EntriesExcept(connectedWorkers, reqs[i].s)
     /\ \A i \in 1..MaxReq :
          (reqs[i] = Idle /\ reqs'[i].kind = "location")
          => /\ EntriesExcept(connectedWorkers', reqs'[i].s)
                  = EntriesExcept(connectedWorkers, reqs'[i].s)
             /\ HasEntry(connectedWorkers', reqs'[i].s)
                  = HasEntry(connectedWorkers, reqs'[i].s)
     /\ \A c \in Socks :
          (socks[c] = "open" /\ socks'[c] = "closed")
          => /\ EntriesExcept(connectedWorkers', c) = EntriesExcept(connectedWorkers, c)
             /\ ~HasEntry(connectedWorkers', c)]_vars

\* A location update has just been applied on a connection that has an
\* entry while another connection of the same user has one too.
C34_Witness ==
  \E i \in 1..MaxReq :
    /\ reqs[i].kind = "location" /\ reqs[i].pc = "gotWorker"
    /\ HasEntry(connectedWorkers, reqs[i].s)
    /\ \E n \in 1..Len(connectedWorkers) :
         /\ connectedWorkers[n].socketId # reqs[i].s
         /\ connectedWorkers[n].phone = PhoneOf[SockUser[reqs[i].s]]

\* C35: a failing notification during accept changes no job, timer or
\* tracking window, and the handler then cancels the job's timer, opens its
\* tracking window, leaves the accepted job as it is and returns success.
C35_NotificationFailureIsSwallowed ==
  [][\A i \in 1..MaxReq :
       /\ (reqs[i].kind = "accept" /\ reqs[i].pc = "gotUpdate"
           /\ reqs'[i] # Idle /\ reqs'[i].pc # "gotUpdate")
          => /\ reqs'[i].pc = "notifyFailed"
             /\ UNCHANGED <<jobs, timers, pendingJobTimeouts, trackingJobs>>
       /\ (reqs[i].kind = "accept" /\ reqs[i].pc = "notifyFailed"
           /\ (reqs'[i] = Idle \/ reqs'[i].pc # "notifyFailed"))
          => /\ ev'.type = "acceptResp" /\ ev'.result = "success"
             /\ jobs' = jobs
             /\ pendingJobTimeouts'[reqs[i].j] = 0
             /\ pendingJobTimeouts[reqs[i].j] # 0
                  => timers'[pendingJobTimeouts[reqs[i].j]] = NoTimer
             /\ trackingJobs'[reqs[i].j] = "running"]_vars

\* An accept has returned success after a notification failed, and the job
\* is accepted by that worker.
C35_Witness ==
  /\ ev.type = "acceptResp" /\ ev.result = "success"
  /\ ~ev.notified
  /\ jobs[ev.j].status = "accepted"
  /\ jobs[ev.j].acceptedBy = NameOf[ev.w]
  /\ trackingJobs[ev.j] = "running"

\* C36: a cancelled job does not block its worker: an accept of a pending
\* job is rejected for an unpaid job only if the worker is the acceptedBy of
\* an unpaid job that is not cancelled.
C36_CancelledJobDoesNotBlock ==
  (/\ ev.type = "acceptResp" /\ ev.result = "unpaid"
   /\ jobs[ev.j].status = "pending")
  => \E k \in Jobs :
       /\ jobs[k].status = "accepted"
       /\ jobs[k].acceptedBy = NameOf[ev.w]
       /\ jobs[k].paymentStatus # "Paid"

\* C37: no step makes a job accepted by a worker who is in the job's
\* declinedBy.
C37_DeclinedNeverAccepted ==
  [][\A j \in Jobs :
       (jobs[j].status # "accepted" /\ jobs'[j].status = "accepted")
       => ~Includes(jobs[j].declinedBy, jobs'[j].acceptedBy)]_vars

\* The decline handler in slot i saves in this step (server.js:1508).
DeclineSaves(i) ==
  /\ reqs[i].kind = "decline" /\ reqs[i].pc = "gotJob"
  /\ reqs'[i] = Idle \/ reqs'[i].pc # "gotJob"

\* The decline handler in slot i calls offerJobToNextWorker in this step
\* (server.js:1514-1520).
DeclineStartsRound(i) ==
  /\ reqs[i].kind = "decline" /\ reqs[i].pc = "saved"
  /\ reqs'[i] = Idle

\* C38: a decline of job J by a worker who is not J's accepted worker
\* changes only J.declinedBy and leaves J's tracking window alone, and it
\* starts a dispatch round for J only if J is pending.
C38_DeclineByOtherChangesDeclinedByOnly ==
  [][\A i \in 1..MaxReq :
       /\ (DeclineSaves(i) /\ jobs[reqs[i].j].acceptedBy # NameOf[reqs[i].w])
          => /\ jobs'[reqs[i].j] =
                  [jobs[reqs[i].j] EXCEPT !.declinedBy = jobs'[reqs[i].j].declinedBy]
             /\ trackingJobs'[reqs[i].j] = trackingJobs[reqs[i].j]
       /\ (DeclineStartsRound(i) /\ jobs[reqs[i].j].acceptedBy # NameOf[reqs[i].w])
          => jobs[reqs[i].j].status = "pending"]_vars

\* The workers named in a declinedBy list.
DeclinedSet(doc) == {doc.declinedBy[k] : k \in 1..Len(doc.declinedBy)}

\* C39: no step removes a worker from a job's declinedBy.
C39_DeclinedByOnlyGrows ==
  [][\A j \in Jobs : DeclinedSet(jobs[j]) \subseteq DeclinedSet(jobs'[j])]_vars

\* A job that a worker has declined has since been paid.
C39_Witness ==
  \E j \in Jobs :
    /\ jobs[j].declinedBy # <<>>
    /\ jobs[j].paymentStatus = "Paid"
====
